---- MODULE Spec2Model ----
(***************************************************************************)
(* Model of the indicator-computation-and-signal-fusion engine of          *)
(* stock_analyzer/core/trading_signal_generator.py:                        *)
(*   TechnicalIndicatorCalculator.calculate_all_indicators                 *)
(*   TradingSignalGenerator.analyze_* (seven analyzers)                    *)
(*   TradingSignalGenerator.generate_signal / calculate_risk_levels        *)
(*                                                                         *)
(* Numbers.  A Python float is modelled as a record [k, v]: k = "num" with *)
(* v the value in units of 1/Scale (fixed point), or k = "nan", "pinf",    *)
(* "ninf" for the IEEE special values the code can produce (0/0, x/0).     *)
(* Python's None is the record with k = "none".  OHLCV inputs and          *)
(* timestamps are integers (price ticks, day numbers).                     *)
(***************************************************************************)
EXTENDS Integers, Sequences, FiniteSets, TLC

VARIABLES
    params,      \* self.params of the TradingSignalGenerator (weights, risk, thresholds)
    kline_data,  \* the caller's DataFrame: a sequence of rows in the caller's order
    pc,          \* position of the caller: "ready" | "returned" | "raised" ("pure" in SpecPure)
    ret,         \* what the last generate_signal call returned or raised
    first,       \* the first completed call of this generator: [df, params, ret]
    now,         \* the wall clock (never read by the engine)
    args,        \* arguments of a direct call of one pure method
    out,         \* result of that direct call
    cache_file   \* the K-line cache file of the stock on disk

vars == <<params, kline_data, pc, ret, first, now, args, out, cache_file>>

----------------------------------------------------------------------------
(* Fixed-point floats *)

Scale == 10 * 10 * 10

Abs(x) == IF x < 0 THEN -x ELSE x
Min(a, b) == IF a <= b THEN a ELSE b
Max(a, b) == IF a >= b THEN a ELSE b

\* a / b rounded to the nearest integer, symmetric in sign (b # 0)
QDiv(a, b) ==
    LET q == (2 * Abs(a) + Abs(b)) \div (2 * Abs(b))
    IN  IF (a < 0) = (b < 0) THEN q ELSE -q

RECURSIVE SqrtSearch(_, _, _)
SqrtSearch(n, lo, hi) ==
    IF lo >= hi THEN lo
    ELSE LET mid == (lo + hi + 1) \div 2
         IN  IF mid * mid <= n THEN SqrtSearch(n, mid, hi)
             ELSE SqrtSearch(n, lo, mid - 1)

\* floor of the square root of a natural number below 2^31
ISqrt(n) == SqrtSearch(n, 0, 46340)

Num(v) == [k |-> "num", v |-> v]
NaN    == [k |-> "nan", v |-> 0]
PInf   == [k |-> "pinf", v |-> 0]
NInf   == [k |-> "ninf", v |-> 0]
None   == [k |-> "none", v |-> 0]
\* an integer as a float
Flt(i) == Num(i * Scale)

IsNum(x) == x.k = "num"
\* pd.isna
IsNa(x) == x.k = "nan" \/ x.k = "none"

\* IEEE comparisons: anything compared with NaN is False
FLt(a, b) ==
    CASE a.k = "nan" \/ b.k = "nan" -> FALSE
      [] a.k = "num" /\ b.k = "num" -> a.v < b.v
      [] a.k = "ninf" -> b.k # "ninf"
      [] b.k = "pinf" -> a.k # "pinf"
      [] OTHER -> FALSE
FGt(a, b) == FLt(b, a)
FLe(a, b) == (a.k # "nan" /\ b.k # "nan") /\ ~FLt(b, a)
FGe(a, b) == FLe(b, a)

FNeg(a) ==
    CASE a.k = "num" -> Num(-a.v)
      [] a.k = "pinf" -> NInf
      [] a.k = "ninf" -> PInf
      [] OTHER -> a

FAdd(a, b) ==
    CASE a.k = "nan" \/ b.k = "nan" -> NaN
      [] a.k = "num" /\ b.k = "num" -> Num(a.v + b.v)
      [] a.k = "num" -> b
      [] b.k = "num" -> a
      [] a.k = b.k -> a
      [] OTHER -> NaN
FSub(a, b) == FAdd(a, FNeg(b))

\* product of two floats (x * 0 with x infinite is NaN)
FMul(a, b) ==
    CASE a.k = "nan" \/ b.k = "nan" -> NaN
      [] a.k = "num" /\ b.k = "num" -> Num(QDiv(a.v * b.v, Scale))
      [] (a.k = "num" /\ a.v = 0) \/ (b.k = "num" /\ b.v = 0) -> NaN
      [] OTHER ->
            LET na == (a.k = "ninf") \/ (a.k = "num" /\ a.v < 0)
                nb == (b.k = "ninf") \/ (b.k = "num" /\ b.v < 0)
            IN  IF na = nb THEN PInf ELSE NInf

\* numpy/pandas float division of two integers n / d: x/0 is +-inf, 0/0 is NaN
IDiv(n, d) ==
    IF d # 0 THEN Num(QDiv(n * Scale, d))
    ELSE IF n = 0 THEN NaN ELSE IF n > 0 THEN PInf ELSE NInf

\* Python truthiness of an Optional[float]: None and 0.0 are false, NaN is true
Truthy(x) ==
    CASE x.k = "none" -> FALSE
      [] x.k = "num" -> x.v # 0
      [] OTHER -> TRUE

----------------------------------------------------------------------------
(* SignalType and the score mapping *)

SignalType == {"STRONG_BUY", "BUY", "NEUTRAL", "SELL", "STRONG_SELL"}

\* _signal_to_score with a STRONG_BUY worth 3
signal_to_score_wide(signal) ==
    CASE signal = "STRONG_BUY" -> 3
      [] signal = "BUY" -> 1
      [] signal = "NEUTRAL" -> 0
      [] signal = "SELL" -> -1
      [] signal = "STRONG_SELL" -> -2

signal_to_score(signal) ==
    CASE signal = "STRONG_BUY" -> 2
      [] signal = "BUY" -> 1
      [] signal = "NEUTRAL" -> 0
      [] signal = "SELL" -> -1
      [] signal = "STRONG_SELL" -> -2

\* score_to_signal comparing with > and < where the code has >= and <=
score_to_signal_strict(score) ==
    IF score > (3 * Scale) \div 2 THEN "STRONG_BUY"
    ELSE IF score > Scale \div 2 THEN "BUY"
    ELSE IF score < -((3 * Scale) \div 2) THEN "STRONG_SELL"
    ELSE IF score < -(Scale \div 2) THEN "SELL"
    ELSE "NEUTRAL"

\* score: the weighted score in units of 1/Scale
score_to_signal(score) ==
    IF score >= (3 * Scale) \div 2 THEN "STRONG_BUY"
    ELSE IF score >= Scale \div 2 THEN "BUY"
    ELSE IF score <= -((3 * Scale) \div 2) THEN "STRONG_SELL"
    ELSE IF score <= -(Scale \div 2) THEN "SELL"
    ELSE "NEUTRAL"

----------------------------------------------------------------------------
(* Configuration: _load_config's default_config and _get_weights.  Weights *)
(* and risk parameters are floats in units of 1/Scale; thresholds are the  *)
(* integers of the source.                                                 *)

DefaultWeights ==
    [rsi |-> Scale, macd |-> Scale, bollinger |-> Scale, trend |-> Scale,
     volume |-> Scale \div 2, stochastic |-> Scale \div 2, adx |-> Scale \div 2]

DefaultRisk == [atr_multiplier |-> 2 * Scale, risk_reward_target |-> 2 * Scale]

default_config ==
    [rsi |-> [period |-> 14, oversold |-> 30, overbought |-> 70],
     macd |-> [fast |-> 12, slow |-> 26, signal |-> 9],
     bollinger |-> [period |-> 20, std_dev |-> 2 * Scale],
     stochastic |-> [k_period |-> 14, d_period |-> 3, overbought |-> 80, oversold |-> 20],
     atr |-> [period |-> 14, multiplier |-> 2 * Scale],
     adx |-> [period |-> 14, trend_threshold |-> 25],
     signals |-> [weights |-> DefaultWeights, risk |-> DefaultRisk]]

\* self.weights = self._get_weights(): the weights dict of the loaded config
get_weights(p) == p.signals.weights

\* dict.update: d with every key of u set to u's value
dict_update(d, u) ==
    [k \in DOMAIN d \cup DOMAIN u |-> IF k \in DOMAIN u THEN u[k] ELSE d[k]]

\* _load_config with a file holding custom_config, a dict of sections that
\* are dicts themselves: a section default_config has is update()d with the
\* file's section one level deep, any other key of the file is added as is
load_config(custom_config) ==
    [key \in DOMAIN default_config \cup DOMAIN custom_config |->
        IF key \notin DOMAIN custom_config THEN default_config[key]
        ELSE IF key \in DOMAIN default_config
             THEN dict_update(default_config[key], custom_config[key])
             ELSE custom_config[key]]

\* the keys the analyzers look up in self.weights, one each
WeightKeys == {"rsi", "macd", "bollinger", "trend", "volume", "stochastic", "adx"}

----------------------------------------------------------------------------
(* SignalComponent and the seven analyzers.  Each takes the latest          *)
(* indicator row (a record of floats); reasoning is the rationale template, *)
(* "insufficient_data" standing for the source's '数据不足'.                *)

SignalComponent(name, signal, weight, value, reasoning) ==
    [name |-> name, signal |-> signal, weight |-> weight, value |-> value,
     reasoning |-> reasoning]

\* analyze_rsi with the oversold and overbought levels inside the strong buckets
analyze_rsi_inclusive(row, p) ==
    LET rsi == row.rsi
        w == get_weights(p).rsi
    IN  IF IsNa(rsi)
        THEN SignalComponent("RSI", "NEUTRAL", w, Flt(50), "insufficient_data")
        ELSE IF FLe(rsi, Flt(p.rsi.oversold))
        THEN SignalComponent("RSI", "STRONG_BUY", w, rsi, "oversold")
        ELSE IF FLt(rsi, Flt(40))
        THEN SignalComponent("RSI", "BUY", w, rsi, "near_oversold")
        ELSE IF FGe(rsi, Flt(p.rsi.overbought))
        THEN SignalComponent("RSI", "STRONG_SELL", w, rsi, "overbought")
        ELSE IF FGt(rsi, Flt(60))
        THEN SignalComponent("RSI", "SELL", w, rsi, "near_overbought")
        ELSE SignalComponent("RSI", "NEUTRAL", w, rsi, "neutral_zone")

\* analyze_rsi without the pd.isna(rsi) branch
analyze_rsi_unchecked(row, p) ==
    LET rsi == row.rsi
        w == get_weights(p).rsi
    IN  IF FLt(rsi, Flt(p.rsi.oversold))
        THEN SignalComponent("RSI", "STRONG_BUY", w, rsi, "oversold")
        ELSE IF FLt(rsi, Flt(40))
        THEN SignalComponent("RSI", "BUY", w, rsi, "near_oversold")
        ELSE IF FGt(rsi, Flt(p.rsi.overbought))
        THEN SignalComponent("RSI", "STRONG_SELL", w, rsi, "overbought")
        ELSE IF FGt(rsi, Flt(60))
        THEN SignalComponent("RSI", "SELL", w, rsi, "near_overbought")
        ELSE SignalComponent("RSI", "NEUTRAL", w, rsi, "neutral_zone")

analyze_rsi(row, p) ==
    LET rsi == row.rsi
        oversold == Flt(p.rsi.oversold)
        overbought == Flt(p.rsi.overbought)
        w == get_weights(p).rsi
    IN  IF IsNa(rsi)
        THEN SignalComponent("RSI", "NEUTRAL", w, Flt(50), "insufficient_data")
        ELSE IF FLt(rsi, oversold)
        THEN SignalComponent("RSI", "STRONG_BUY", w, rsi, "oversold")
        ELSE IF FLt(rsi, Flt(40))
        THEN SignalComponent("RSI", "BUY", w, rsi, "near_oversold")
        ELSE IF FGt(rsi, overbought)
        THEN SignalComponent("RSI", "STRONG_SELL", w, rsi, "overbought")
        ELSE IF FGt(rsi, Flt(60))
        THEN SignalComponent("RSI", "SELL", w, rsi, "near_overbought")
        ELSE SignalComponent("RSI", "NEUTRAL", w, rsi, "neutral_zone")

\* analyze_macd taking no notice of the previous row
analyze_macd_no_cross(row, prev_row, p) ==
    LET macd == row.macd
        signal_line == row.macd_signal
        histogram == row.macd_hist
        w == get_weights(p).macd
    IN  IF IsNa(macd) \/ IsNa(signal_line)
        THEN SignalComponent("MACD", "NEUTRAL", w, Flt(0), "insufficient_data")
        ELSE IF FGt(macd, signal_line) /\ FGt(histogram, Flt(0))
        THEN SignalComponent("MACD", "BUY", w, histogram, "above_signal")
        ELSE IF FLt(macd, signal_line) /\ FLt(histogram, Flt(0))
        THEN SignalComponent("MACD", "SELL", w, histogram, "below_signal")
        ELSE SignalComponent("MACD", "NEUTRAL", w, histogram, "unclear")

\* prev_row is a row, or None when the frame has a single row
analyze_macd(row, prev_row, p) ==
    LET macd == row.macd
        signal_line == row.macd_signal
        histogram == row.macd_hist
        w == get_weights(p).macd
        crossover ==
            IF prev_row # None /\ ~IsNa(prev_row.macd)
            THEN LET prev_above == FGt(prev_row.macd, prev_row.macd_signal)
                     curr_above == FGt(macd, signal_line)
                 IN  prev_above # curr_above
            ELSE FALSE
    IN  IF IsNa(macd) \/ IsNa(signal_line)
        THEN SignalComponent("MACD", "NEUTRAL", w, Flt(0), "insufficient_data")
        ELSE IF FGt(macd, signal_line) /\ FGt(histogram, Flt(0))
        THEN IF crossover
             THEN SignalComponent("MACD", "STRONG_BUY", w, histogram, "golden_cross")
             ELSE SignalComponent("MACD", "BUY", w, histogram, "above_signal")
        ELSE IF FLt(macd, signal_line) /\ FLt(histogram, Flt(0))
        THEN IF crossover
             THEN SignalComponent("MACD", "STRONG_SELL", w, histogram, "death_cross")
             ELSE SignalComponent("MACD", "SELL", w, histogram, "below_signal")
        ELSE SignalComponent("MACD", "NEUTRAL", w, histogram, "unclear")

\* analyze_bollinger with the band edges inside the strong buckets
analyze_bollinger_inclusive(row, p) ==
    LET bb_pct == row.bb_pct
        w == get_weights(p).bollinger
    IN  IF IsNa(bb_pct)
        THEN SignalComponent("Bollinger", "NEUTRAL", w, Num(Scale \div 2), "insufficient_data")
        ELSE IF FLe(bb_pct, Flt(0))
        THEN SignalComponent("Bollinger", "STRONG_BUY", w, bb_pct, "below_lower_band")
        ELSE IF FLt(bb_pct, Num(Scale \div 5))
        THEN SignalComponent("Bollinger", "BUY", w, bb_pct, "near_lower_band")
        ELSE IF FGe(bb_pct, Flt(1))
        THEN SignalComponent("Bollinger", "STRONG_SELL", w, bb_pct, "above_upper_band")
        ELSE IF FGt(bb_pct, Num((4 * Scale) \div 5))
        THEN SignalComponent("Bollinger", "SELL", w, bb_pct, "near_upper_band")
        ELSE SignalComponent("Bollinger", "NEUTRAL", w, bb_pct, "mid_band")

analyze_bollinger(row, p) ==
    LET bb_pct == row.bb_pct
        w == get_weights(p).bollinger
    IN  IF IsNa(bb_pct)
        THEN SignalComponent("Bollinger", "NEUTRAL", w, Num(Scale \div 2), "insufficient_data")
        ELSE IF FLt(bb_pct, Flt(0))
        THEN SignalComponent("Bollinger", "STRONG_BUY", w, bb_pct, "below_lower_band")
        ELSE IF FLt(bb_pct, Num(Scale \div 5))
        THEN SignalComponent("Bollinger", "BUY", w, bb_pct, "near_lower_band")
        ELSE IF FGt(bb_pct, Flt(1))
        THEN SignalComponent("Bollinger", "STRONG_SELL", w, bb_pct, "above_upper_band")
        ELSE IF FGt(bb_pct, Num((4 * Scale) \div 5))
        THEN SignalComponent("Bollinger", "SELL", w, bb_pct, "near_upper_band")
        ELSE SignalComponent("Bollinger", "NEUTRAL", w, bb_pct, "mid_band")

\* the score over four checks whether or not sma_200 is defined
trend_score_four_checks(row) ==
    LET close == row.close
        b(c) == IF c THEN 1 ELSE -1
    IN  b(FGt(close, row.sma_20)) + b(FGt(close, row.sma_50))
            + b(FGt(close, row.sma_200)) + b(FGt(row.sma_50, row.sma_200))

\* a trend score in which a close equal to a moving average counts for neither side
trend_score_ties_skipped(row) ==
    LET close == row.close
        b(x, y) == IF FGt(x, y) THEN 1 ELSE IF FLt(x, y) THEN -1 ELSE 0
        short == b(close, row.sma_20) + b(close, row.sma_50)
    IN  IF ~IsNa(row.sma_200)
        THEN short + b(close, row.sma_200) + b(row.sma_50, row.sma_200)
        ELSE short

\* bullish - bearish over the moving-average checks of analyze_trend
trend_score(row) ==
    LET close == row.close
        b(c) == IF c THEN 1 ELSE -1
        short == b(FGt(close, row.sma_20)) + b(FGt(close, row.sma_50))
    IN  IF ~IsNa(row.sma_200)
        THEN short + b(FGt(close, row.sma_200)) + b(FGt(row.sma_50, row.sma_200))
        ELSE short

analyze_trend(row, p) ==
    LET w == get_weights(p).trend
        score == trend_score(row)
    IN  IF IsNa(row.sma_20) \/ IsNa(row.sma_50)
        THEN SignalComponent("Trend", "NEUTRAL", w, Flt(0), "insufficient_data")
        ELSE IF score >= 3
        THEN SignalComponent("Trend", "STRONG_BUY", w, Flt(score), "strong_uptrend")
        ELSE IF score >= 1
        THEN SignalComponent("Trend", "BUY", w, Flt(score), "uptrend")
        ELSE IF score <= -3
        THEN SignalComponent("Trend", "STRONG_SELL", w, Flt(score), "strong_downtrend")
        ELSE IF score <= -1
        THEN SignalComponent("Trend", "SELL", w, Flt(score), "downtrend")
        ELSE SignalComponent("Trend", "NEUTRAL", w, Flt(score), "mixed")

\* analyze_volume reading every surge as buying
analyze_volume_long_only(row, p) ==
    LET volume_ratio == row.volume_ratio
        w == get_weights(p).volume
    IN  IF IsNa(volume_ratio)
        THEN SignalComponent("Volume", "NEUTRAL", w, Flt(1), "insufficient_data")
        ELSE IF FGt(volume_ratio, Flt(2))
        THEN SignalComponent("Volume", "STRONG_BUY", w, volume_ratio, "surge_up")
        ELSE IF FGt(volume_ratio, Num((3 * Scale) \div 2))
        THEN SignalComponent("Volume", "BUY", w, volume_ratio, "expand_up")
        ELSE SignalComponent("Volume", "NEUTRAL", w, volume_ratio, "normal")

analyze_volume(row, p) ==
    LET volume_ratio == row.volume_ratio
        change == row.change_1d
        w == get_weights(p).volume
    IN  IF IsNa(volume_ratio)
        THEN SignalComponent("Volume", "NEUTRAL", w, Flt(1), "insufficient_data")
        ELSE IF FGt(volume_ratio, Flt(2))
        THEN IF FGt(change, Flt(0))
             THEN SignalComponent("Volume", "STRONG_BUY", w, volume_ratio, "surge_up")
             ELSE SignalComponent("Volume", "STRONG_SELL", w, volume_ratio, "surge_down")
        ELSE IF FGt(volume_ratio, Num((3 * Scale) \div 2))
        THEN IF FGt(change, Flt(0))
             THEN SignalComponent("Volume", "BUY", w, volume_ratio, "expand_up")
             ELSE SignalComponent("Volume", "SELL", w, volume_ratio, "expand_down")
        ELSE SignalComponent("Volume", "NEUTRAL", w, volume_ratio, "normal")

\* analyze_stochastic deciding on %K alone
analyze_stochastic_k_only(row, p) ==
    LET k == row.stoch_k
        w == get_weights(p).stochastic
    IN  IF IsNa(k) \/ IsNa(row.stoch_d)
        THEN SignalComponent("Stochastic", "NEUTRAL", w, Flt(50), "insufficient_data")
        ELSE IF FLt(k, Flt(p.stochastic.oversold))
        THEN SignalComponent("Stochastic", "STRONG_BUY", w, k, "oversold")
        ELSE IF FLt(k, Flt(30))
        THEN SignalComponent("Stochastic", "BUY", w, k, "near_oversold")
        ELSE IF FGt(k, Flt(p.stochastic.overbought))
        THEN SignalComponent("Stochastic", "STRONG_SELL", w, k, "overbought")
        ELSE IF FGt(k, Flt(70))
        THEN SignalComponent("Stochastic", "SELL", w, k, "near_overbought")
        ELSE SignalComponent("Stochastic", "NEUTRAL", w, k, "neutral_zone")

analyze_stochastic(row, p) ==
    LET k == row.stoch_k
        d == row.stoch_d
        oversold == Flt(p.stochastic.oversold)
        overbought == Flt(p.stochastic.overbought)
        w == get_weights(p).stochastic
    IN  IF IsNa(k) \/ IsNa(d)
        THEN SignalComponent("Stochastic", "NEUTRAL", w, Flt(50), "insufficient_data")
        ELSE IF FLt(k, oversold) /\ FLt(d, oversold)
        THEN SignalComponent("Stochastic", "STRONG_BUY", w, k, "oversold")
        ELSE IF FLt(k, Flt(30))
        THEN SignalComponent("Stochastic", "BUY", w, k, "near_oversold")
        ELSE IF FGt(k, overbought) /\ FGt(d, overbought)
        THEN SignalComponent("Stochastic", "STRONG_SELL", w, k, "overbought")
        ELSE IF FGt(k, Flt(70))
        THEN SignalComponent("Stochastic", "SELL", w, k, "near_overbought")
        ELSE SignalComponent("Stochastic", "NEUTRAL", w, k, "neutral_zone")

\* analyze_adx with an ADX of exactly 40 already strong
analyze_adx_inclusive(row, p) ==
    LET adx == row.adx
        up == FGt(row.plus_di, row.minus_di)
        w == get_weights(p).adx
    IN  IF IsNa(adx)
        THEN SignalComponent("ADX", "NEUTRAL", w, Flt(20), "insufficient_data")
        ELSE IF FLt(adx, Flt(20))
        THEN SignalComponent("ADX", "NEUTRAL", w, adx, "no_trend")
        ELSE IF FLt(adx, Flt(p.adx.trend_threshold))
        THEN IF up
             THEN SignalComponent("ADX", "BUY", w, adx, "uptrend_forming")
             ELSE SignalComponent("ADX", "SELL", w, adx, "downtrend_forming")
        ELSE IF up
        THEN SignalComponent("ADX", IF FGe(adx, Flt(40)) THEN "STRONG_BUY" ELSE "BUY",
                             w, adx, "strong_uptrend")
        ELSE SignalComponent("ADX", IF FGe(adx, Flt(40)) THEN "STRONG_SELL" ELSE "SELL",
                             w, adx, "strong_downtrend")

analyze_adx(row, p) ==
    LET adx == row.adx
        up == FGt(row.plus_di, row.minus_di)
        trend_threshold == Flt(p.adx.trend_threshold)
        w == get_weights(p).adx
    IN  IF IsNa(adx)
        THEN SignalComponent("ADX", "NEUTRAL", w, Flt(20), "insufficient_data")
        ELSE IF FLt(adx, Flt(20))
        THEN SignalComponent("ADX", "NEUTRAL", w, adx, "no_trend")
        ELSE IF FLt(adx, trend_threshold)
        THEN IF up
             THEN SignalComponent("ADX", "BUY", w, adx, "uptrend_forming")
             ELSE SignalComponent("ADX", "SELL", w, adx, "downtrend_forming")
        ELSE IF up
        THEN SignalComponent("ADX", IF FGt(adx, Flt(40)) THEN "STRONG_BUY" ELSE "BUY",
                             w, adx, "strong_uptrend")
        ELSE SignalComponent("ADX", IF FGt(adx, Flt(40)) THEN "STRONG_SELL" ELSE "SELL",
                             w, adx, "strong_downtrend")

----------------------------------------------------------------------------
(* The DataFrame.  A frame is a sequence of rows [ts, open, high, low,      *)
(* close, volume]; ts is the index label (the bar's date), the other        *)
(* columns are integers.  The timestamps of a frame are distinct.           *)

\* df.sort_index(ascending=True) returns a new frame ordered by index label
sort_index_asc(df) == SortSeq(df, LAMBDA a, b : a.ts < b.ts)
\* df.sort_index(ascending=False)
sort_index_desc(df) == SortSeq(df, LAMBDA a, b : a.ts > b.ts)

RECURSIVE Sum(_, _, _)
\* f[lo] + ... + f[hi] of an integer column
Sum(f, lo, hi) ==
    IF lo > hi THEN 0
    ELSE IF lo = hi THEN f[lo]
    ELSE Sum(f, lo, (lo + hi) \div 2) + Sum(f, (lo + hi) \div 2 + 1, hi)

RECURSIVE FSum(_, _, _)
\* the same for a column of floats
FSum(f, lo, hi) == IF lo > hi THEN Flt(0) ELSE FAdd(f[hi], FSum(f, lo, hi - 1))

\* a float divided by a positive integer
FDivInt(a, n) == IF a.k = "num" THEN Num(QDiv(a.v, n)) ELSE a

\* a / b for two floats
FDiv(a, b) ==
    CASE a.k = "nan" \/ b.k = "nan" -> NaN
      [] a.k = "num" /\ b.k = "num" ->
            IF b.v # 0 THEN Num(QDiv(a.v * Scale, b.v))
            ELSE IF a.v = 0 THEN NaN ELSE IF a.v > 0 THEN PInf ELSE NInf
      [] a.k = "num" -> Flt(0)
      [] b.k = "num" -> IF (a.k = "pinf") = (b.v >= 0) THEN PInf ELSE NInf
      [] OTHER -> NaN

\* sqrt(n / d) of a non-negative rational as a float; the precision drops
\* with the size of n so that the intermediate product stays below 2^31
SqrtFp(n, d) ==
    IF n < 2000 THEN ISqrt((n * Scale * Scale) \div d)
    ELSE IF n < 200000 THEN 10 * ISqrt((n * (Scale \div 10) * (Scale \div 10)) \div d)
    ELSE 100 * ISqrt((n * (Scale \div 100) * (Scale \div 100)) \div d)

\* params.get(key, default) on the top level of the params dict
ParamsGet(p, key, default) == IF key \in DOMAIN p THEN p[key] ELSE default

----------------------------------------------------------------------------
(* TechnicalIndicatorCalculator: each indicator at position i (1 = oldest)  *)
(* of the ascending frame s.                                                *)

\* the rolling mean over the values there are when the window is not full
calculate_sma_partial(col, period, i) ==
    IDiv(Sum(col, Max(1, i - period + 1), i), Min(i, period))

\* data.rolling(window=period).mean() of an integer column
calculate_sma(col, period, i) ==
    IF i < period THEN NaN ELSE IDiv(Sum(col, i - period + 1, i), period)

\* rolling mean of a float column: NaN until the window is full of values
RollingMeanF(col, period, i) ==
    IF i < period THEN NaN ELSE FDivInt(FSum(col, i - period + 1, i), period)

RECURSIVE EmaFold(_, _, _, _, _)
\* the ewm recurrence applied to positions lo..hi of x, starting from the
\* mean y of the positions before lo; the mean of the first half is bound
\* (left) before the second half is entered, as the loop computes it
EmaFold(x, period, lo, hi, y) ==
    IF lo > hi THEN y
    ELSE IF lo = hi
         THEN (2 * x[lo] + (period - 1) * y + (period + 1) \div 2) \div (period + 1)
         ELSE LET mid == (lo + hi) \div 2
              IN  CHOOSE r \in {EmaFold(x, period, mid + 1, hi, left) :
                                   left \in {EmaFold(x, period, lo, mid, y)}} : TRUE

\* data.ewm(span=period, adjust=False).mean() at position n of a column x of
\* fixed-point values: y1 = x1, yt = a*xt + (1-a)*y(t-1) with a = 2/(period+1),
\* each step rounded to the nearest unit
calculate_ema(x, period, n) == EmaFold(x, period, 2, n, x[1])

\* rs = gain / loss over the window; 100 - 100 / (1 + rs)
calculate_rsi(close, period, i) ==
    LET gain == [j \in 1..i |-> IF j > 1 /\ close[j] > close[j - 1]
                                THEN close[j] - close[j - 1] ELSE 0]
        loss == [j \in 1..i |-> IF j > 1 /\ close[j] < close[j - 1]
                                THEN close[j - 1] - close[j] ELSE 0]
        g == Sum(gain, i - period + 1, i)
        l == Sum(loss, i - period + 1, i)
    IN  IF i < period THEN NaN
        ELSE IF l = 0 THEN (IF g = 0 THEN NaN ELSE Flt(100))
        ELSE Num(100 * Scale - QDiv(100 * Scale * l, g + l))

\* [macd, signal, hist] at position i, fixed-point values
calculate_macd(close, fast, slow, signal, i) ==
    LET x == [j \in 1..i |-> close[j] * Scale]
        macd_line == [j \in 1..i |-> calculate_ema(x, fast, j) - calculate_ema(x, slow, j)]
        signal_line == calculate_ema(macd_line, signal, i)
    IN  [macd |-> macd_line[i], signal |-> signal_line, hist |-> macd_line[i] - signal_line]

\* [upper, middle, lower] at i; std is the sample standard deviation (ddof=1)
calculate_bollinger_bands(close, period, std_dev, i) ==
    LET s1 == Sum(close, i - period + 1, i)
        s2 == Sum([j \in 1..i |-> close[j] * close[j]], i - period + 1, i)
        middle == calculate_sma(close, period, i)
        std == Num(SqrtFp(period * s2 - s1 * s1, period * (period - 1)))
        band == FMul(std, Num(std_dev))
    IN  IF i < period \/ period < 2
        THEN [upper |-> NaN, middle |-> middle, lower |-> NaN]
        ELSE [upper |-> FAdd(middle, band), middle |-> middle, lower |-> FSub(middle, band)]

\* the true range of bar j: the row maximum skips the NaN of the first bar
TrueRange(high, low, close, j) ==
    IF j = 1 THEN high[j] - low[j]
    ELSE Max(high[j] - low[j], Max(Abs(high[j] - close[j - 1]), Abs(low[j] - close[j - 1])))

calculate_atr(high, low, close, period, i) ==
    calculate_sma([j \in 1..i |-> TrueRange(high, low, close, j)], period, i)

RECURSIVE RollMin(_, _, _)
RollMin(f, lo, hi) == IF lo = hi THEN f[hi] ELSE Min(f[hi], RollMin(f, lo, hi - 1))
RECURSIVE RollMax(_, _, _)
RollMax(f, lo, hi) == IF lo = hi THEN f[hi] ELSE Max(f[hi], RollMax(f, lo, hi - 1))

\* %K at position j
StochK(high, low, close, k_period, j) ==
    IF j < k_period THEN NaN
    ELSE LET lowest_low == RollMin(low, j - k_period + 1, j)
             highest_high == RollMax(high, j - k_period + 1, j)
         IN  IDiv(100 * (close[j] - lowest_low), highest_high - lowest_low)

\* [k, d] at i
calculate_stochastic(high, low, close, k_period, d_period, i) ==
    [k |-> StochK(high, low, close, k_period, i),
     d |-> RollingMeanF([j \in 1..i |-> StochK(high, low, close, k_period, j)], d_period, i)]

\* +DM of bar j after the where(): kept when above the raw -DM and positive
PlusDM(high, low, j) ==
    IF j > 1 /\ high[j] - high[j - 1] > low[j - 1] - low[j] /\ high[j] - high[j - 1] > 0
    THEN high[j] - high[j - 1] ELSE 0

\* -DM of bar j after the where(): compared with the already filtered +DM
MinusDM(high, low, j) ==
    IF j > 1 /\ low[j - 1] - low[j] > PlusDM(high, low, j) /\ low[j - 1] - low[j] > 0
    THEN low[j - 1] - low[j] ELSE 0

\* [plus_di, minus_di, dx] at j.  With p, m, t the window sums of +DM, -DM
\* and the true range: plus_di = 100*(p/n)/(t/n), dx = 100*|+DI - -DI|/(+DI + -DI)
DirectionalIndex(high, low, close, period, j) ==
    LET p == Sum([q \in 1..j |-> PlusDM(high, low, q)], j - period + 1, j)
        m == Sum([q \in 1..j |-> MinusDM(high, low, q)], j - period + 1, j)
        t == Sum([q \in 1..j |-> TrueRange(high, low, close, q)], j - period + 1, j)
    IN  IF j < period THEN [plus_di |-> NaN, minus_di |-> NaN, dx |-> NaN]
        ELSE [plus_di |-> IDiv(100 * p, t), minus_di |-> IDiv(100 * m, t),
              dx |-> IF t = 0 THEN NaN
                     ELSE IF t > 0 THEN IDiv(100 * Abs(p - m), p + m)
                     ELSE FNeg(IDiv(100 * Abs(p - m), p + m))]

\* [adx, plus_di, minus_di] at i
calculate_adx(high, low, close, period, i) ==
    LET di == DirectionalIndex(high, low, close, period, i)
        dx == [j \in 1..i |-> DirectionalIndex(high, low, close, period, j).dx]
    IN  [adx |-> RollingMeanF(dx, period, i), plus_di |-> di.plus_di, minus_di |-> di.minus_di]

\* the columns of a row of result: the bar, the bar before it (None for the
\* oldest) and the indicator values at its position
RowFields(bar, prev, sma_20, sma_50, sma_200, rsi, m, bb, atr, stoch, volume_sma, adx) ==
    [ts |-> bar.ts,
     open |-> Flt(bar.open), high |-> Flt(bar.high), low |-> Flt(bar.low),
     close |-> Flt(bar.close), volume |-> Flt(bar.volume),
     sma_20 |-> sma_20, sma_50 |-> sma_50, sma_200 |-> sma_200,
     rsi |-> rsi,
     macd |-> Num(m.macd), macd_signal |-> Num(m.signal), macd_hist |-> Num(m.hist),
     bb_upper |-> bb.upper, bb_middle |-> bb.middle, bb_lower |-> bb.lower,
     bb_width |-> FDiv(FSub(bb.upper, bb.lower), bb.middle),
     bb_pct |-> FDiv(FSub(Flt(bar.close), bb.lower), FSub(bb.upper, bb.lower)),
     atr |-> atr,
     atr_pct |-> FMul(FDiv(atr, Flt(bar.close)), Flt(100)),
     stoch_k |-> stoch.k, stoch_d |-> stoch.d,
     volume_sma |-> volume_sma,
     volume_ratio |-> FDiv(Flt(bar.volume), volume_sma),
     adx |-> adx.adx, plus_di |-> adx.plus_di, minus_di |-> adx.minus_di,
     change_1d |-> IF prev = None THEN NaN
                   ELSE IDiv(100 * (bar.close - prev.close), prev.close)]

\* the row of position i with its volume average taken over the whole frame
IndicatorRow_whole_frame(s, p, i) ==
    LET c == [j \in 1..i |-> s[j].close]
        h == [j \in 1..i |-> s[j].high]
        l == [j \in 1..i |-> s[j].low]
        v == [j \in 1..Len(s) |-> s[j].volume]
    IN  RowFields(s[i], IF i = 1 THEN None ELSE s[i - 1],
                  calculate_sma(c, 20, i), calculate_sma(c, 50, i), calculate_sma(c, 200, i),
                  calculate_rsi(c, ParamsGet(p, "rsi_period", 14), i),
                  calculate_macd(c, ParamsGet(p, "macd_fast", 12),
                                 ParamsGet(p, "macd_slow", 26),
                                 ParamsGet(p, "macd_signal", 9), i),
                  calculate_bollinger_bands(c, ParamsGet(p, "bb_period", 20),
                                            ParamsGet(p, "bb_std", 2 * Scale), i),
                  calculate_atr(h, l, c, ParamsGet(p, "atr_period", 14), i),
                  calculate_stochastic(h, l, c, ParamsGet(p, "stoch_k", 14),
                                       ParamsGet(p, "stoch_d", 3), i),
                  calculate_sma(v, Len(s), Len(s)),
                  calculate_adx(h, l, c, ParamsGet(p, "adx_period", 14), i))

\* the row of position i of the ascending frame s with every indicator column
IndicatorRow(s, p, i) ==
    LET c == [j \in 1..i |-> s[j].close]
        h == [j \in 1..i |-> s[j].high]
        l == [j \in 1..i |-> s[j].low]
        v == [j \in 1..i |-> s[j].volume]
    IN  RowFields(s[i], IF i = 1 THEN None ELSE s[i - 1],
                  calculate_sma(c, 20, i), calculate_sma(c, 50, i), calculate_sma(c, 200, i),
                  calculate_rsi(c, ParamsGet(p, "rsi_period", 14), i),
                  calculate_macd(c, ParamsGet(p, "macd_fast", 12),
                                 ParamsGet(p, "macd_slow", 26),
                                 ParamsGet(p, "macd_signal", 9), i),
                  calculate_bollinger_bands(c, ParamsGet(p, "bb_period", 20),
                                            ParamsGet(p, "bb_std", 2 * Scale), i),
                  calculate_atr(h, l, c, ParamsGet(p, "atr_period", 14), i),
                  calculate_stochastic(h, l, c, ParamsGet(p, "stoch_k", 14),
                                       ParamsGet(p, "stoch_d", 3), i),
                  calculate_sma(v, 20, i),
                  calculate_adx(h, l, c, ParamsGet(p, "adx_period", 14), i))

\* calculate_all_indicators taking the caller's row order for the chronological one
calculate_all_indicators_unsorted(df, p) ==
    [r \in 1..Len(df) |-> IndicatorRow(df, p, Len(df) + 1 - r)]

\* calculate_all_indicators(df, params): works on a sorted copy of df and
\* returns the rows newest first.  The result is the function from the
\* position in the returned frame to the row; a row is computed on demand.
calculate_all_indicators(df, p) ==
    LET result == df
        result_sorted == sort_index_asc(result)
        n == Len(result_sorted)
        order == sort_index_desc([i \in 1..n |-> [ts |-> result_sorted[i].ts, pos |-> i]])
    IN  [r \in 1..n |-> IndicatorRow(result_sorted, p, order[r].pos)]

\* calculate_all_indicators sorting the caller's frame in place
FrameAfterCall_inplace(df) == sort_index_asc(df)

\* the caller's frame object after calculate_all_indicators(df, params)
FrameAfterCall(df) == df

----------------------------------------------------------------------------
(* TradingSignalGenerator.calculate_risk_levels and generate_signal *)

\* calculate_risk_levels placing the levels of a sell on the sides of a buy
calculate_risk_levels_long_only(price, signal, atr, p) ==
    LET atr_multiplier == Num(ParamsGet(p.signals.risk, "atr_multiplier", 2 * Scale))
        risk_reward_target == Num(ParamsGet(p.signals.risk, "risk_reward_target", 2 * Scale))
        directional == signal \in {"STRONG_BUY", "BUY", "STRONG_SELL", "SELL"}
        stop_loss ==
            IF directional THEN FSub(price, FMul(atr, atr_multiplier)) ELSE None
        take_profit ==
            IF directional
            THEN FAdd(price, FMul(FMul(atr, atr_multiplier), risk_reward_target))
            ELSE None
    IN  [stop_loss |-> stop_loss, take_profit |-> take_profit,
         risk_reward |-> IF Truthy(stop_loss) THEN risk_reward_target ELSE None]

\* (stop_loss, take_profit, risk_reward); price and atr are floats
calculate_risk_levels(price, signal, atr, p) ==
    LET atr_multiplier == Num(ParamsGet(p.signals.risk, "atr_multiplier", 2 * Scale))
        risk_reward_target == Num(ParamsGet(p.signals.risk, "risk_reward_target", 2 * Scale))
        stop_loss ==
            IF signal \in {"STRONG_BUY", "BUY"} THEN FSub(price, FMul(atr, atr_multiplier))
            ELSE IF signal \in {"STRONG_SELL", "SELL"} THEN FAdd(price, FMul(atr, atr_multiplier))
            ELSE None
        take_profit ==
            IF signal \in {"STRONG_BUY", "BUY"}
            THEN FAdd(price, FMul(FMul(atr, atr_multiplier), risk_reward_target))
            ELSE IF signal \in {"STRONG_SELL", "SELL"}
            THEN FSub(price, FMul(FMul(atr, atr_multiplier), risk_reward_target))
            ELSE None
    IN  [stop_loss |-> stop_loss, take_profit |-> take_profit,
         risk_reward |-> IF Truthy(stop_loss) THEN risk_reward_target ELSE None]

RECURSIVE SumOf(_, _)
\* sum of the integer sequence q up to position n
SumOf(q, n) == IF n = 0 THEN 0 ELSE q[n] + SumOf(q, n - 1)

\* total_weight = sum(c.weight for c in components)
total_weight(components) ==
    SumOf([i \in 1..Len(components) |-> components[i].weight], Len(components))

\* sum(score * weight) / total_weight, in units of 1/Scale (total_weight # 0)
weighted_score(components) ==
    QDiv(SumOf([i \in 1..Len(components) |->
                   signal_to_score(components[i].signal) * components[i].weight],
               Len(components)) * Scale,
         total_weight(components))

\* np.std(scores): the population standard deviation, in units of 1/Scale
StdScores(scores) ==
    LET n == Len(scores)
        s1 == SumOf(scores, n)
        s2 == SumOf([i \in 1..n |-> scores[i] * scores[i]], n)
    IN  QDiv(ISqrt((n * s2 - s1 * s1) * Scale * Scale), n)

\* the strength term taken from the signed score
strength_of_signed(ws) == QDiv(ws, 2)

\* strength = abs(weighted_score) / 2, in units of 1/Scale
strength_of(ws) == QDiv(Abs(ws), 2)

\* confidence = min(100, (agreement * 0.5 + strength * 0.5) * 100)
\* a confidence in which the strength term counts double
confidence_of_double_strength(components, ws) ==
    LET scores == [i \in 1..Len(components) |-> signal_to_score(components[i].signal)]
        agreement == Scale - QDiv(StdScores(scores), 2)
        strength == strength_of(ws)
    IN  Min(100 * Scale, 50 * agreement + 100 * strength)

confidence_of(components, ws) ==
    LET scores == [i \in 1..Len(components) |-> signal_to_score(components[i].signal)]
        agreement == Scale - QDiv(StdScores(scores), 2)
        strength == strength_of(ws)
    IN  Min(100 * Scale, 50 * (agreement + strength))

Raise(exc) == [kind |-> "raise", exc |-> exc]

\* the part of generate_signal after the analyzers: score, composite signal,
\* confidence, risk levels, and the TradingSignal it returns
Fuse(components, row, ts, p) ==
    IF total_weight(components) = 0 THEN Raise("ZeroDivisionError")
    ELSE LET ws == weighted_score(components)
             composite_signal == score_to_signal(ws)
             risk == calculate_risk_levels(row.close, composite_signal, row.atr, p)
         IN  [kind |-> "signal",
              timestamp |-> ts,
              signal |-> composite_signal,
              confidence |-> Num(confidence_of(components, ws)),
              components |-> components,
              price |-> row.close,
              stop_loss |-> risk.stop_loss,
              take_profit |-> risk.take_profit,
              risk_reward |-> risk.risk_reward,
              weighted_score |-> ws]

\* the seven components in the order generate_signal appends them
Components(row, prev_row, p) ==
    <<analyze_rsi(row, p), analyze_macd(row, prev_row, p), analyze_bollinger(row, p),
      analyze_trend(row, p), analyze_volume(row, p), analyze_stochastic(row, p),
      analyze_adx(row, p)>>

\* generate_signal from the frame with its indicator columns: row is iloc[0],
\* prev_row is iloc[1] when the frame has more than one row
SignalOfRows(df_with_indicators, n, p) ==
    Fuse(Components(df_with_indicators[1],
                    IF n > 1 THEN df_with_indicators[2] ELSE None, p),
         df_with_indicators[1], df_with_indicators[1].ts, p)

\* generate_signal(kline_data, ...) with self.params = p: the TradingSignal
\* returned or the exception raised.  iloc[0] of an empty frame raises
\* IndexError; an analyzer whose key self.weights lacks raises KeyError.
generate_signal(df, p) ==
    IF Len(df) = 0 THEN Raise("IndexError")
    ELSE IF ~(WeightKeys \subseteq DOMAIN get_weights(p)) THEN Raise("KeyError")
    ELSE SignalOfRows(calculate_all_indicators(df, p), Len(df), p)

----------------------------------------------------------------------------
(* Inputs: the frames a caller passes and the configurations a generator    *)
(* is constructed with.                                                     *)

\* longest frame whose rows are enumerated bar by bar, in every row order
MaxShort == 2
\* ticks of the wall clock in SpecHistory
MaxClock == 2
\* longest enumerated frame of SpecHistory
HistLen == 1

Bar(o, h, l, c, v) == [open |-> o, high |-> h, low |-> l, close |-> c, volume |-> v]

\* the OHLCV invariant of a bar: high >= max(open, close) >= min(open, close) >= low >= 0, volume >= 0
ValidBar(b) ==
    /\ b.high >= Max(b.open, b.close)
    /\ Min(b.open, b.close) >= b.low
    /\ b.low >= 0
    /\ b.volume >= 0

ValidBars == {Bar(10, 10, 10, 10, 100), Bar(10, 12, 10, 12, 300), Bar(10, 10, 8, 8, 100)}

\* one bar per way of breaking the OHLCV invariant
InvalidBars ==
    {Bar(10, 9, 11, 10, 100),     \* high < low
     Bar(10, 9, 9, 10, 100),      \* high < max(open, close)
     Bar(10, 12, 11, 10, 100),    \* low > min(open, close)
     Bar(0, 1, -1, 0, 100),       \* low < 0
     Bar(10, 10, 10, 10, -1)}     \* volume < 0

Perms(n) == {f \in [1..n -> 1..n] : \A i, j \in 1..n : f[i] = f[j] => i = j}

WithTs(b, t) ==
    [ts |-> t, open |-> b.open, high |-> b.high, low |-> b.low, close |-> b.close,
     volume |-> b.volume]

\* every frame of n rows over the bars, the timestamps 1..n in every row order
FramesOfLen(bars, n) ==
    {[i \in 1..n |-> WithTs(bs[i], f[i])] : bs \in [1..n -> bars], f \in Perms(n)}

ShortFrames(bars, maxlen) == UNION {FramesOfLen(bars, n) : n \in 0..maxlen}

\* close of bar i (1 = oldest) of a patterned frame of n bars
PatternClose(kind, n, i) ==
    CASE kind = "flat" -> 10
      [] kind = "up" -> 10 + i
      [] kind = "down" -> 10 + n - i
      [] kind = "zig" -> 10 + 3 * (i % 2)
      [] kind = "vee" -> 10 + Abs(2 * i - n)
      [] kind = "peak" -> 10 + n - Abs(2 * i - n)
      [] kind = "rise" -> 1000 + (1000 * (i - 1)) \div (n - 1)

RowOrders == {"newest_first", "oldest_first", "mixed"}

\* the bar (1 = oldest) held by row r of a frame of n rows in a row order;
\* the fetchers hand over newest_first, mixed is a shuffle (11 divides no length)
BarOfRow(order, n, r) ==
    CASE order = "newest_first" -> n + 1 - r
      [] order = "oldest_first" -> r
      [] order = "mixed" -> ((11 * r) % n) + 1

\* a valid frame of n bars following a pattern; the last bar trades 3x the volume
PatternFrame(kind, n, order) ==
    LET bar(i) ==
            LET c == PatternClose(kind, n, i)
                o == IF i = 1 THEN c ELSE PatternClose(kind, n, i - 1)
            IN  [ts |-> i, open |-> o,
                 high |-> IF kind = "flat" THEN c ELSE Max(o, c) + 1,
                 low |-> IF kind = "flat" THEN c ELSE Min(o, c) - 1,
                 close |-> c,
                 volume |-> IF i = n /\ kind # "flat" THEN 300 ELSE 100]
    IN  [r \in 1..n |-> bar(BarOfRow(order, n, r))]

PatternKinds == {"flat", "up", "down", "zig", "vee", "peak"}

\* lengths below and around the windows of the indicators (14, 16, 20, 27, 50)
LongLens == {5, 9, 13, 14, 15, 16, 17, 19, 20, 26, 27, 28, 49, 50, 60}

LongFrames ==
    {PatternFrame(kind, n, order) : kind \in PatternKinds, n \in LongLens, order \in RowOrders}

\* sixty closes rising from 10.00 to 20.00, priced in cents
RisingFrames == {PatternFrame("rise", 60, order) : order \in RowOrders}

\* frames one bar short of, and exactly at, the 200-bar moving-average window
DeepFrames ==
    {PatternFrame(kind, n, "newest_first") : kind \in {"flat", "up", "down"}, n \in {199, 200}}

Frames ==
    ShortFrames(ValidBars \cup InvalidBars, MaxShort) \cup LongFrames \cup RisingFrames
        \cup DeepFrames

ValidFrame(df) == \A i \in 1..Len(df) : ValidBar(df[i])

WithWeights(w) == [default_config EXCEPT !.signals.weights = w]

\* a configuration file giving MACD ten times the weight of the others
MacdHeavyWeights == [DefaultWeights EXCEPT !.macd = 10 * Scale]

\* a configuration file that switches the three half-weight components off
CoreOnlyWeights == [DefaultWeights EXCEPT !.volume = 0, !.stochastic = 0, !.adx = 0]

\* a configuration file with its own risk parameters (1.5 and 3.0)
CustomRisk ==
    [default_config EXCEPT !.signals.risk =
        [atr_multiplier |-> (3 * Scale) \div 2, risk_reward_target |-> 3 * Scale]]

ConfigSet ==
    {default_config, WithWeights(MacdHeavyWeights), WithWeights(CoreOnlyWeights), CustomRisk}

----------------------------------------------------------------------------
(* The generator in use: a caller holds a frame, calls generate_signal and  *)
(* gets a TradingSignal or an exception.                                    *)

\* first: the first generate_signal call of the run (frame, configuration,
\* outcome, time of the call) and whether a call on another frame followed
NoCall == [kind |-> "nocall"]
NoRet == [kind |-> "none"]
NoArgs == [op |-> "none"]

\* no kline_<stock_code>.json in the cache directory
NoFile == [kind |-> "absent"]

\* generate_signal overwriting the configured MACD weight
ParamsAfterCall_reweighted(p) == [p EXCEPT !.signals.weights.macd = 0]

\* self.params after a generate_signal call
ParamsAfterCall(p) == p

Init ==
    /\ params \in ConfigSet
    /\ kline_data \in Frames
    /\ pc = "ready"
    /\ ret = NoRet
    /\ first = NoCall
    /\ now = 0
    /\ args = NoArgs
    /\ out = NoRet
    /\ cache_file = NoFile

\* trading_signal = self.signal_generator.generate_signal(kline_data, ...)
GenerateSignal ==
    /\ pc = "ready"
    /\ ret' = generate_signal(kline_data, params)
    /\ pc' = IF ret'.kind = "raise" THEN "raised" ELSE "returned"
    /\ first' = IF first = NoCall
                THEN [kind |-> "call", df |-> kline_data, params |-> params, ret |-> ret',
                      at |-> now, other |-> FALSE]
                ELSE [first EXCEPT !.other = @ \/ kline_data # first.df]
    /\ kline_data' = FrameAfterCall(kline_data)
    /\ params' = ParamsAfterCall(params)
    /\ UNCHANGED <<now, args, out, cache_file>>

Next == GenerateSignal

Spec == Init /\ [][Next]_vars

----------------------------------------------------------------------------
(* Properties of one generate_signal call (Spec).  After the call, first    *)
(* holds the frame and the configuration the call was made with, ret its    *)
(* outcome and kline_data the caller's frame object.                        *)

Called == first # NoCall

\* the greatest timestamp of a non-empty frame
MaxTs(df) == CHOOSE t \in {df[i].ts : i \in 1..Len(df)} : \A i \in 1..Len(df) : df[i].ts <= t

\* the bar of a frame that carries timestamp t
BarAt(df, t) == df[CHOOSE i \in 1..Len(df) : df[i].ts = t]

\* the ATR column of the latest row of the frame the call was made with
LatestAtr == calculate_all_indicators(first.df, first.params)[1].atr

\* C4: whenever the latest bar's ATR is undefined, for every configuration,
\* generate_signal returns a signal whose stop_loss, take_profit and
\* risk_reward are all null
C4_NoRiskLevelsWithoutAtr ==
    (Called /\ Len(first.df) > 0 /\ IsNa(LatestAtr))
        => /\ ret.kind = "signal"
           /\ ret.stop_loss = None
           /\ ret.take_profit = None
           /\ ret.risk_reward = None

\* a valid two-bar frame under non-default weights: the composite is a buy,
\* both levels are NaN and risk_reward is the configured target
C4_NaNLevelsReturned ==
    /\ Called /\ ValidFrame(first.df) /\ Len(first.df) = 2
    /\ IsNa(LatestAtr)
    /\ ret.kind = "signal" /\ ret.signal \in {"BUY", "STRONG_BUY"}
    /\ ret.stop_loss = NaN /\ ret.take_profit = NaN
    /\ ret.risk_reward = Num(first.params.signals.risk.risk_reward_target)

\* C5: generate_signal fails with InsufficientDataError exactly when the
\* series has zero bars
C5_EmptyRaisesInsufficientData ==
    Called => ((Len(first.df) = 0) <=> (ret = Raise("InsufficientDataError")))

\* the call on the empty frame ends in the IndexError of iloc[0]
C5_EmptyRaisesIndexError ==
    Called /\ Len(first.df) = 0 /\ ret = Raise("IndexError")

\* C6: a series holding a bar that violates the OHLCV invariant makes
\* generate_signal raise InvalidBarError
C6_InvalidBarRejected ==
    (Called /\ ~ValidFrame(first.df)) => ret = Raise("InvalidBarError")

\* a frame whose latest bar has high < low is turned into a signal
C6_InvalidBarProcessed ==
    /\ Called /\ Len(first.df) = 1
    /\ first.df[1].high < first.df[1].low
    /\ ret.kind = "signal" /\ ret.price = Flt(first.df[1].close)

\* the order generate_signal appends the components in
ComponentNames == <<"RSI", "MACD", "Bollinger", "Trend", "Volume", "Stochastic", "ADX">>

\* bars each component's indicator needs before its latest value is defined:
\* RSI 14, MACD 1, Bollinger 20, trend SMA50 50, volume average 20,
\* stochastic %D 3 over %K 14, ADX 14 over DX 14
BarsNeeded == <<14, 1, 20, 50, 20, 14 + 3 - 1, 14 + 14 - 1>>

ConfiguredWeight(p, i) ==
    CASE i = 1 -> get_weights(p).rsi
      [] i = 2 -> get_weights(p).macd
      [] i = 3 -> get_weights(p).bollinger
      [] i = 4 -> get_weights(p).trend
      [] i = 5 -> get_weights(p).volume
      [] i = 6 -> get_weights(p).stochastic
      [] i = 7 -> get_weights(p).adx

\* C7: on a valid series of L >= 1 bars under the default configuration
\* generate_signal returns a TradingSignal with the seven components in the
\* order RSI, MACD, Bollinger, Trend, Volume, Stochastic, ADX, and every
\* component whose indicator needs more than L bars is NEUTRAL with the
\* insufficient-data rationale and its configured weight
C7_ShortSeriesDegrade ==
    (Called /\ Len(first.df) >= 1 /\ ValidFrame(first.df) /\ first.params = default_config)
        => /\ ret.kind = "signal"
           /\ Len(ret.components) = 7
           /\ \A i \in 1..7 :
                /\ ret.components[i].name = ComponentNames[i]
                /\ ret.components[i].weight = ConfiguredWeight(default_config, i)
                /\ BarsNeeded[i] > Len(first.df)
                     => /\ ret.components[i].signal = "NEUTRAL"
                        /\ ret.components[i].reasoning = "insufficient_data"

\* sixteen bars: RSI and the stochastic have their values, Bollinger, Trend,
\* Volume and ADX report insufficient data
C7_SixteenBars ==
    /\ Called /\ Len(first.df) = 16 /\ ValidFrame(first.df) /\ first.params = default_config
    /\ ret.kind = "signal"
    /\ ret.components[1].reasoning # "insufficient_data"
    /\ ret.components[6].reasoning # "insufficient_data"
    /\ \A i \in {3, 4, 5, 7} : ret.components[i].reasoning = "insufficient_data"

C10_RowOrderIrrelevant ==
    (Called /\ Len(first.df) >= 1)
        => /\ ret = generate_signal(sort_index_asc(first.df), first.params)
           /\ ret.kind = "signal"
                => /\ ret.timestamp = MaxTs(first.df)
                   /\ ret.price = Flt(BarAt(first.df, MaxTs(first.df)).close)
                   /\ ret.components[2] =
                        analyze_macd(
                            IndicatorRow(sort_index_asc(first.df), first.params, Len(first.df)),
                            IF Len(first.df) > 1
                            THEN IndicatorRow(sort_index_asc(first.df), first.params,
                                              Len(first.df) - 1)
                            ELSE None,
                            first.params)

\* a call on a shuffled frame (neither the newest nor the oldest bar first)
\* that ends in a directional signal
C10_ShuffledFrameCalled ==
    /\ Called /\ Len(first.df) >= 13
    /\ first.df[1].ts # MaxTs(first.df) /\ first.df[1].ts # 1
    /\ ret.kind = "signal" /\ ret.signal # "NEUTRAL"

----------------------------------------------------------------------------
(* The fusion step and calculate_risk_levels on their own (SpecPure): the   *)
(* inputs are drawn in args, the result is left in out.                     *)

\* every combination of the seven component signals
SignalVectors == [1..7 -> SignalType]

\* a configuration file that switches every component off
ZeroWeights ==
    [rsi |-> 0, macd |-> 0, bollinger |-> 0, trend |-> 0, volume |-> 0,
     stochastic |-> 0, adx |-> 0]

\* a configuration file with a negative RSI weight
ContrarianWeights == [DefaultWeights EXCEPT !.rsi = -Scale]

\* three configurations whose weights are non-negative with a positive total,
\* one with a zero total and one with a negative weight
WeightConfigs ==
    {default_config, WithWeights(MacdHeavyWeights), WithWeights(CoreOnlyWeights),
     WithWeights(ZeroWeights), WithWeights(ContrarianWeights)}

RiskConfigs == {default_config, CustomRisk}

FuseArgs ==
    {[op |-> "fuse", sigs |-> sigs, signal |-> "NEUTRAL", price |-> Flt(10), atr |-> Flt(1)] :
        sigs \in SignalVectors}

\* atr includes 0 and NaN, price = atr * atr_multiplier for price 4, atr 2
RiskArgs ==
    {[op |-> "risk", sigs |-> <<>>, signal |-> signal, price |-> Flt(price), atr |-> atr] :
        signal \in SignalType, price \in {4, 10},
        atr \in {Flt(0), Flt(1), Flt(2), Flt(3), NaN}}

\* the components the analyzers hand to the fusion step when they classify sigs
GivenComponents(sigs, p) ==
    [i \in 1..7 |->
        SignalComponent(ComponentNames[i], sigs[i], ConfiguredWeight(p, i), Flt(0), "given")]

InitPure ==
    /\ \/ args \in FuseArgs /\ params \in WeightConfigs
       \/ args \in RiskArgs /\ params \in RiskConfigs
    /\ kline_data = <<>>
    /\ pc = "pure"
    /\ ret = NoRet
    /\ first = NoCall
    /\ now = 0
    /\ out = NoRet
    /\ cache_file = NoFile

\* lines 801-833 of generate_signal on the given components
ApplyFuse ==
    /\ args.op = "fuse" /\ out = NoRet
    /\ out' = Fuse(GivenComponents(args.sigs, params),
                   [close |-> args.price, atr |-> args.atr], 1, params)
    /\ UNCHANGED <<params, kline_data, pc, ret, first, now, args, cache_file>>

\* self.calculate_risk_levels(price, signal, atr)
ApplyRisk ==
    /\ args.op = "risk" /\ out = NoRet
    /\ out' = calculate_risk_levels(args.price, args.signal, args.atr, params)
    /\ UNCHANGED <<params, kline_data, pc, ret, first, now, args, cache_file>>

NextPure == ApplyFuse \/ ApplyRisk

SpecPure == InitPure /\ [][NextPure]_vars

Fused == args.op = "fuse" /\ out # NoRet /\ out.kind = "signal"

\* C1: the composite signal is STRONG_BUY iff w >= 1.5, BUY iff 0.5 <= w < 1.5,
\* STRONG_SELL iff w <= -1.5, SELL iff -1.5 < w <= -0.5 and NEUTRAL iff
\* -0.5 < w < 0.5, for the weighted score w the fusion step computed
C1_ScoreThresholds ==
    Fused =>
        LET w == out.weighted_score
        IN  /\ out.signal = "STRONG_BUY" <=> 2 * w >= 3 * Scale
            /\ out.signal = "BUY" <=> (2 * w >= Scale /\ 2 * w < 3 * Scale)
            /\ out.signal = "STRONG_SELL" <=> 2 * w <= -3 * Scale
            /\ out.signal = "SELL" <=> (2 * w > -3 * Scale /\ 2 * w <= -Scale)
            /\ out.signal = "NEUTRAL" <=> (2 * w > -Scale /\ 2 * w < Scale)

\* a weighted score of exactly 1.5 classified STRONG_BUY
C1_ExactlyOneAndAHalf ==
    Fused /\ 2 * out.weighted_score = 3 * Scale /\ out.signal = "STRONG_BUY"

NonNegativeWeights(p) == \A i \in 1..7 : ConfiguredWeight(p, i) >= 0

PositiveTotalWeight(p) == SumOf([i \in 1..7 |-> ConfiguredWeight(p, i)], 7) > 0

\* C2: for every combination of component signals and every configuration
\* with non-negative weights and a positive total, the weighted score is
\* within [-2, 2] and the confidence is a number within [0, 100]
C2_ScoreAndConfidenceBounded ==
    (args.op = "fuse" /\ out # NoRet /\ NonNegativeWeights(params) /\ PositiveTotalWeight(params))
        => /\ out.kind = "signal"
           /\ out.weighted_score >= -2 * Scale /\ out.weighted_score <= 2 * Scale
           /\ IsNum(out.confidence)
           /\ out.confidence.v >= 0 /\ out.confidence.v <= 100 * Scale

\* seven STRONG_BUY components: the score is 2 and the confidence 100
C2_UnanimousStrongBuy ==
    /\ Fused /\ \A i \in 1..7 : args.sigs[i] = "STRONG_BUY"
    /\ out.weighted_score = 2 * Scale /\ out.confidence = Flt(100)

\* a * m and a * m * r for an ATR a in 1/Scale units
AtrDistance(a, p) == (a * p.signals.risk.atr_multiplier) \div Scale
AtrTarget(a, p) == (AtrDistance(a, p) * p.signals.risk.risk_reward_target) \div Scale

\* C3: with a defined ATR a, price p, atr_multiplier m and risk_reward_target r,
\* stop_loss = p - a*m and take_profit = p + a*m*r for BUY and STRONG_BUY,
\* stop_loss = p + a*m and take_profit = p - a*m*r for SELL and STRONG_SELL,
\* and stop_loss, take_profit and risk_reward are null for NEUTRAL
C3_RiskLevelFormulas ==
    (args.op = "risk" /\ out # NoRet /\ IsNum(args.atr))
        => /\ args.signal \in {"BUY", "STRONG_BUY"}
                => /\ out.stop_loss = Num(args.price.v - AtrDistance(args.atr.v, params))
                   /\ out.take_profit = Num(args.price.v + AtrTarget(args.atr.v, params))
           /\ args.signal \in {"SELL", "STRONG_SELL"}
                => /\ out.stop_loss = Num(args.price.v + AtrDistance(args.atr.v, params))
                   /\ out.take_profit = Num(args.price.v - AtrTarget(args.atr.v, params))
           /\ args.signal = "NEUTRAL"
                => /\ out.stop_loss = None
                   /\ out.take_profit = None
                   /\ out.risk_reward = None

\* a SELL at price 10 with ATR 2, multiplier 1.5 and target 3: stop 13, target 1
C3_SellLevels ==
    /\ args.op = "risk" /\ out # NoRet
    /\ args.signal = "SELL" /\ args.price = Flt(10) /\ args.atr = Flt(2)
    /\ params = CustomRisk
    /\ out.stop_loss = Flt(13) /\ out.take_profit = Flt(1)

----------------------------------------------------------------------------
(* One generator analysing stock after stock while the clock runs           *)
(* (SpecHistory).                                                           *)

\* the frames the analyses fetch: every valid frame up to HistLen bars and
\* three longer ones
HistFrames ==
    ShortFrames(ValidBars, HistLen)
        \cup {PatternFrame("up", 20, "newest_first"), PatternFrame("zig", 27, "newest_first"),
              PatternFrame("down", 14, "mixed")}

InitHistory ==
    /\ params \in ConfigSet
    /\ kline_data \in HistFrames
    /\ pc = "ready"
    /\ ret = NoRet
    /\ first = NoCall
    /\ now = 0
    /\ args = NoArgs
    /\ out = NoRet
    /\ cache_file = NoFile

\* kline_data = self._get_fetchedwith_fallback(stock_code) of the next analysis
NextAnalysis ==
    /\ pc \in {"returned", "raised"}
    /\ kline_data' \in HistFrames
    /\ pc' = "ready"
    /\ ret' = NoRet
    /\ UNCHANGED <<params, first, now, args, out, cache_file>>

\* the wall clock (datetime.now()) advances
Tick ==
    /\ now < MaxClock
    /\ now' = now + 1
    /\ UNCHANGED <<params, kline_data, pc, ret, first, args, out, cache_file>>

NextHistory == GenerateSignal \/ NextAnalysis \/ Tick

SpecHistory == InitHistory /\ [][NextHistory]_vars

----------------------------------------------------------------------------
(* A generator constructed from a configuration file (SpecConfig):          *)
(* __init__ loads the file over the defaults, then the caller calls         *)
(* generate_signal.  args holds the dict yaml.safe_load returned.           *)

NoDict == <<>>

\* d[key] when the dict has the key, else the empty dict
Section(d, key) == IF key \in DOMAIN d THEN d[key] ELSE NoDict

\* signals.weights of a file: any subset of the seven weights, each set to 3.0
WeightOverrides == {[k \in ks |-> 3 * Scale] : ks \in SUBSET WeightKeys}

\* signals.risk of a file: any subset of the two risk parameters, each set to 1.5
RiskOverrides ==
    {[k \in ks |-> (3 * Scale) \div 2] : ks \in SUBSET {"atr_multiplier", "risk_reward_target"}}

\* the signals section of a file, with the sub-dicts that are not empty
SignalsOverride(w, r) ==
    LET signals == (IF DOMAIN w = {} THEN NoDict ELSE [weights |-> w])
                   @@ (IF DOMAIN r = {} THEN NoDict ELSE [risk |-> r])
    IN  IF DOMAIN signals = {} THEN NoDict ELSE [signals |-> signals]

\* the indicator sections of a file: none, one section with its periods
\* shortened in the layout of default_config, or rsi_period as a top-level key
NestedPeriodOverrides ==
    {[rsi |-> [period |-> 5]],
     [macd |-> [fast |-> 3, slow |-> 6, signal |-> 2]],
     [bollinger |-> [period |-> 5, std_dev |-> Scale]],
     [atr |-> [period |-> 5]],
     [stochastic |-> [k_period |-> 5, d_period |-> 2]],
     [adx |-> [period |-> 5]]}

TopLevelPeriodOverrides == {[rsi_period |-> 5]}

PeriodOverrides == {NoDict} \cup NestedPeriodOverrides \cup TopLevelPeriodOverrides

CustomConfigs ==
    {periods @@ SignalsOverride(w, r) :
        periods \in PeriodOverrides, w \in WeightOverrides, r \in RiskOverrides}

ConfigFrames ==
    {PatternFrame("zig", 13, "newest_first"), PatternFrame("vee", 28, "oldest_first")}

InitConfig ==
    /\ params = NoDict
    /\ kline_data \in ConfigFrames
    /\ pc = "unloaded"
    /\ ret = NoRet
    /\ first = NoCall
    /\ now = 0
    /\ args \in {[op |-> "load", custom_config |-> c] : c \in CustomConfigs}
    /\ out = NoRet
    /\ cache_file = NoFile

\* TradingSignalGenerator(config_path): self.params = self._load_config(config_path)
LoadConfig ==
    /\ pc = "unloaded"
    /\ params' = load_config(args.custom_config)
    /\ pc' = "ready"
    /\ UNCHANGED <<kline_data, ret, first, now, args, out, cache_file>>

NextConfig == LoadConfig \/ GenerateSignal

SpecConfig == InitConfig /\ [][NextConfig]_vars

Loaded == args.op = "load" /\ pc # "unloaded"

FileWeights == Section(Section(args.custom_config, "signals"), "weights")
FileRisk == Section(Section(args.custom_config, "signals"), "risk")

\* C11: after a file overriding a subset of the seven weights and of the two
\* risk parameters is loaded, every weight and risk parameter the file gives
\* has the file's value and every other one its documented default, and
\* generate_signal returns a TradingSignal whose components carry these weights
C11_UnmentionedDefaultsKept ==
    Loaded =>
        /\ \A k \in WeightKeys :
              /\ k \in DOMAIN get_weights(params)
              /\ get_weights(params)[k] =
                    IF k \in DOMAIN FileWeights THEN FileWeights[k] ELSE DefaultWeights[k]
        /\ \A k \in DOMAIN DefaultRisk :
              ParamsGet(params.signals.risk, k, 2 * Scale) =
                    IF k \in DOMAIN FileRisk THEN FileRisk[k] ELSE DefaultRisk[k]
        /\ pc \in {"returned", "raised"}
              => /\ ret.kind = "signal"
                 /\ \A i \in 1..7 : ret.components[i].weight = ConfiguredWeight(params, i)

\* a file overriding only the MACD weight: the loaded weights are the file's
\* one entry and generate_signal raises KeyError
C11_PartialWeightsRaiseKeyError ==
    /\ Loaded /\ DOMAIN FileWeights = {"macd"}
    /\ DOMAIN get_weights(params) = {"macd"}
    /\ pc = "raised" /\ ret = Raise("KeyError")

\* the top-level keys calculate_all_indicators reads, set to the periods of
\* the sections of p
FlatPeriods(p) ==
    [rsi_period |-> p.rsi.period,
     macd_fast |-> p.macd.fast, macd_slow |-> p.macd.slow, macd_signal |-> p.macd.signal,
     bb_period |-> p.bollinger.period, bb_std |-> p.bollinger.std_dev,
     atr_period |-> p.atr.period,
     stoch_k |-> p.stochastic.k_period, stoch_d |-> p.stochastic.d_period,
     adx_period |-> p.adx.period]

\* C12: when a file overrides the periods of an indicator section, the
\* TradingSignal generate_signal returns is the one computed with every
\* indicator on the windows of the loaded sections
C12_ConfiguredPeriodsUsed ==
    (Loaded /\ pc = "returned"
        /\ DOMAIN args.custom_config \cap DOMAIN FlatPeriods(default_config) = {})
        => ret = generate_signal(kline_data, FlatPeriods(params) @@ params)

\* a file setting rsi.period to 5 and thirteen bars: the RSI component
\* reports insufficient data, the window being the default 14
C12_RsiWindowStaysFourteen ==
    /\ Loaded /\ pc = "returned" /\ Len(kline_data) = 13
    /\ params.rsi.period = 5
    /\ ret.components[1].reasoning = "insufficient_data"

----------------------------------------------------------------------------
(* The rules of the generator one at a time (SpecRules): the strength term  *)
(* of the confidence on two weighted scores, and each analyzer on a latest  *)
(* row whose indicator columns are drawn around the thresholds.             *)

\* a file moving the RSI levels to 25 and 75
CustomLevels == load_config([rsi |-> [oversold |-> 25, overbought |-> 75]])

\* the defaults, the file above, a file moving the ADX trend threshold to 30
\* and a file with its own weights
RuleConfigs ==
    {default_config, CustomLevels, load_config([adx |-> [trend_threshold |-> 30]]),
     WithWeights(MacdHeavyWeights)}

\* weighted scores from -2.0 to 2.0 in steps of 0.1
WeightedScores == {i * (Scale \div 10) : i \in -20..20}

StrengthArgs == {[op |-> "strength", a |-> a, b |-> b] : a, b \in WeightedScores}

\* the rsi column of the latest row: undefined, or a value at, just below or
\* just above a level
RsiArgs ==
    LET RsiValues ==
            {NaN, Flt(0), Flt(50), Flt(100)}
                \cup {Num(t * Scale + d) : t \in {25, 30, 40, 60, 70, 75}, d \in {-1, 0, 1}}
    IN  {[op |-> "rsi", row |-> [rsi |-> x]] : x \in RsiValues}

\* the macd and macd_signal columns of a row: undefined or a value; the
\* histogram is their difference as calculate_macd computes it
MacdRows ==
    LET MacdValues == {NaN, Num(-(Scale \div 2)), Flt(0), Num(Scale \div 2)}
    IN  {[macd |-> m, macd_signal |-> sl, macd_hist |-> FSub(m, sl)] : m, sl \in MacdValues}

MacdArgs ==
    {[op |-> "macd", row |-> row, prev_row |-> prev_row] :
        row \in MacdRows, prev_row \in MacdRows \cup {None}}

\* the band of a row (undefined, of width 1.00 or of width 0) and the close
\* around its edges; bb_pct as calculate_all_indicators computes it.  The
\* close of a band of width 0 is on the band: every close of the window is equal.
BandRow(close, lower, upper) ==
    [close |-> close, bb_lower |-> lower, bb_upper |-> upper,
     bb_pct |-> FDiv(FSub(close, lower), FSub(upper, lower))]

BandRows ==
    LET BandOffsets ==
            {-Scale}
                \cup {t + d : t \in {0, Scale \div 5, (4 * Scale) \div 5, Scale},
                             d \in {-1, 0, 1}}
                \cup {Scale \div 2, 2 * Scale}
    IN  {BandRow(Num(10 * Scale + d), Flt(10), Flt(11)) : d \in BandOffsets}
            \cup {BandRow(Flt(10), Flt(10), Flt(10)), BandRow(Flt(10), NaN, NaN)}

BollingerArgs == {[op |-> "bollinger", row |-> row] : row \in BandRows}

\* the moving averages of a row around a close of 10: sma_50 is defined only
\* with sma_20 and sma_200 only with sma_50
TrendRows ==
    LET SmaValues == {NaN, Flt(8), Flt(9), Flt(10), Flt(11)}
    IN  {row \in [close : {Flt(10)}, sma_20 : SmaValues, sma_50 : SmaValues,
                  sma_200 : SmaValues] :
            /\ IsNa(row.sma_20) => IsNa(row.sma_50)
            /\ IsNa(row.sma_50) => IsNa(row.sma_200)}

TrendArgs == {[op |-> "trend", row |-> row] : row \in TrendRows}

\* the volume ratio of a row around 1.5 and 2.0 and the last change in
\* percent; a row with a volume ratio has a previous close
VolumeRows ==
    {row \in [volume_ratio : {NaN, Flt(1), Flt(3)}
                                \cup {Num(t + d) : t \in {(3 * Scale) \div 2, 2 * Scale},
                                                   d \in {-1, 0, 1}},
              change_1d : {NaN, Flt(-5), Num(-1), Flt(0), Num(1), Flt(5)}] :
        IsNa(row.change_1d) => IsNa(row.volume_ratio)}

VolumeArgs == {[op |-> "volume", row |-> row] : row \in VolumeRows}

\* %K and %D of a row, undefined or around 20, 30, 70 and 80; %D is a mean
\* of %K values and undefined whenever the latest %K is
StochasticArgs ==
    LET values == {NaN, Flt(0), Flt(50), Flt(100)}
                      \cup {Num(t * Scale + d) : t \in {20, 30, 70, 80}, d \in {-1, 0, 1}}
    IN  {a \in [op : {"stochastic"}, row : [stoch_k : values, stoch_d : values]] :
            IsNa(a.row.stoch_k) => IsNa(a.row.stoch_d)}

\* adx, plus_di and minus_di of a row: the ADX undefined or around 20, 25,
\* 30 and 40; with +DI = -DI = 0 the DX is 0/0 and the ADX undefined
AdxArgs ==
    LET values == {NaN, Flt(10), Flt(60)}
                      \cup {Num(t * Scale + d) : t \in {20, 25, 30, 40}, d \in {-1, 0, 1}}
        di == {Flt(0), Flt(10), Flt(30)}
    IN  {a \in [op : {"adx"}, row : [adx : values, plus_di : di, minus_di : di]] :
            (a.row.plus_di = Flt(0) /\ a.row.minus_di = Flt(0)) => IsNa(a.row.adx)}

RuleArgs ==
    StrengthArgs \cup RsiArgs \cup MacdArgs \cup BollingerArgs \cup TrendArgs \cup VolumeArgs
        \cup StochasticArgs \cup AdxArgs

InitRules ==
    /\ params \in RuleConfigs
    /\ kline_data = <<>>
    /\ pc = "rule"
    /\ ret = NoRet
    /\ first = NoCall
    /\ now = 0
    /\ args \in RuleArgs
    /\ out = NoRet
    /\ cache_file = NoFile

\* strength = abs(weighted_score) / 2 for the scores a and b
ApplyStrength ==
    /\ args.op = "strength" /\ out = NoRet
    /\ out' = [a |-> strength_of(args.a), b |-> strength_of(args.b)]
    /\ UNCHANGED <<params, kline_data, pc, ret, first, now, args, cache_file>>

\* components.append(self.analyze_rsi(row))
AnalyzeRsi ==
    /\ args.op = "rsi" /\ out = NoRet
    /\ out' = analyze_rsi(args.row, params)
    /\ UNCHANGED <<params, kline_data, pc, ret, first, now, args, cache_file>>

\* components.append(self.analyze_macd(row, prev_row))
AnalyzeMacd ==
    /\ args.op = "macd" /\ out = NoRet
    /\ out' = analyze_macd(args.row, args.prev_row, params)
    /\ UNCHANGED <<params, kline_data, pc, ret, first, now, args, cache_file>>

\* components.append(self.analyze_bollinger(row))
AnalyzeBollinger ==
    /\ args.op = "bollinger" /\ out = NoRet
    /\ out' = analyze_bollinger(args.row, params)
    /\ UNCHANGED <<params, kline_data, pc, ret, first, now, args, cache_file>>

\* components.append(self.analyze_trend(row))
AnalyzeTrend ==
    /\ args.op = "trend" /\ out = NoRet
    /\ out' = analyze_trend(args.row, params)
    /\ UNCHANGED <<params, kline_data, pc, ret, first, now, args, cache_file>>

\* components.append(self.analyze_volume(row))
AnalyzeVolume ==
    /\ args.op = "volume" /\ out = NoRet
    /\ out' = analyze_volume(args.row, params)
    /\ UNCHANGED <<params, kline_data, pc, ret, first, now, args, cache_file>>

\* components.append(self.analyze_stochastic(row))
AnalyzeStochastic ==
    /\ args.op = "stochastic" /\ out = NoRet
    /\ out' = analyze_stochastic(args.row, params)
    /\ UNCHANGED <<params, kline_data, pc, ret, first, now, args, cache_file>>

\* components.append(self.analyze_adx(row))
AnalyzeAdx ==
    /\ args.op = "adx" /\ out = NoRet
    /\ out' = analyze_adx(args.row, params)
    /\ UNCHANGED <<params, kline_data, pc, ret, first, now, args, cache_file>>

NextRules ==
    \/ AnalyzeStochastic
    \/ AnalyzeAdx
    \/ ApplyStrength
    \/ AnalyzeRsi
    \/ AnalyzeMacd
    \/ AnalyzeBollinger
    \/ AnalyzeTrend
    \/ AnalyzeVolume

SpecRules == InitRules /\ [][NextRules]_vars

Applied(op) == args.op = op /\ out # NoRet

\* C13 (as stated): of two weighted scores a < b in [-2, 2], b has the
\* strength term that is not smaller
C13_StrengthMonotoneInScore ==
    (Applied("strength") /\ args.a < args.b) => out.b >= out.a

\* C13 (amended): of two weighted scores in [-2, 2], the one of the greater
\* magnitude has the strength term that is not smaller, and the strength
\* term is half the magnitude; so it never decreases while a score rises
\* from 0 and never increases while a score rises towards 0
C13_StrengthMonotoneInMagnitude ==
    Applied("strength") =>
        /\ 2 * out.a = Abs(args.a) /\ 2 * out.b = Abs(args.b)
        /\ Abs(args.a) <= Abs(args.b) => out.a <= out.b
        /\ (0 <= args.a /\ args.a < args.b) => out.a <= out.b
        /\ (args.a < args.b /\ args.b <= 0) => out.a >= out.b

\* the scores -2.0 and -1.0: the greater score has the smaller strength
C13_RisingNegativeScore ==
    /\ Applied("strength") /\ args.a = -2 * Scale /\ args.b = -Scale
    /\ out.a = Scale /\ out.b = Scale \div 2

\* C16: analyze_rsi returns the RSI component with the configured weight;
\* NEUTRAL with the insufficient-data rationale when the RSI is undefined,
\* else STRONG_BUY below the oversold level (30), else BUY below 40, else
\* STRONG_SELL above the overbought level (70), else SELL above 60, else
\* NEUTRAL; an RSI of exactly 30.0 is BUY and of exactly 70.0 is SELL
C16_RsiBuckets ==
    Applied("rsi") =>
        LET rsi == args.row.rsi
        IN  /\ out.name = "RSI" /\ out.weight = get_weights(params).rsi
            /\ out.reasoning = "insufficient_data" <=> rsi.k # "num"
            /\ rsi.k # "num" => out.signal = "NEUTRAL"
            /\ rsi.k = "num" =>
                 out.signal =
                    IF rsi.v < params.rsi.oversold * Scale THEN "STRONG_BUY"
                    ELSE IF rsi.v < 40 * Scale THEN "BUY"
                    ELSE IF rsi.v > params.rsi.overbought * Scale THEN "STRONG_SELL"
                    ELSE IF rsi.v > 60 * Scale THEN "SELL"
                    ELSE "NEUTRAL"
            /\ (params.rsi.oversold = 30 /\ rsi = Flt(30)) => out.signal = "BUY"
            /\ (params.rsi.overbought = 70 /\ rsi = Flt(70)) => out.signal = "SELL"

\* an RSI of exactly 30.0 under the default levels, classified BUY
C16_ExactlyThirty ==
    /\ Applied("rsi") /\ params = default_config /\ args.row.rsi = Flt(30)
    /\ out.signal = "BUY" /\ out.reasoning = "near_oversold"

----------------------------------------------------------------------------
(* Scenarios of one generate_signal call under the default configuration    *)
(* (Spec).                                                                  *)

\* sixty bars with open = high = low = close = 10.00 and a constant volume
FlatFrames == {PatternFrame("flat", 60, order) : order \in RowOrders}

CalledOn(frames) == Called /\ first.df \in frames /\ first.params = default_config

\* C14: on the flat series of 60 bars closing at 10.00 generate_signal
\* returns the composite NEUTRAL with a confidence below 30 and with no
\* stop_loss and no take_profit
C14_FlatSeriesLowConfidence ==
    CalledOn(FlatFrames)
        => /\ ret.kind = "signal"
           /\ ret.signal = "NEUTRAL"
           /\ ret.confidence.k = "num" /\ ret.confidence.v < 30 * Scale
           /\ ret.stop_loss = None /\ ret.take_profit = None

\* the flat series: NEUTRAL without risk levels, the trend component SELL
\* (the close is not above its averages), and a confidence of 45.8
C14_FlatSeriesConfidence ==
    /\ CalledOn(FlatFrames) /\ ret.kind = "signal"
    /\ ret.signal = "NEUTRAL" /\ ret.stop_loss = None /\ ret.take_profit = None
    /\ ret.components[4].signal = "SELL"
    /\ \A i \in 1..7 : i # 4 => ret.components[i].signal = "NEUTRAL"
    /\ ret.confidence = Num(45800)

\* C15: on 60 closes rising from 10.00 to 20.00 with the volume of the last
\* bar above the average, generate_signal returns the trend component
\* STRONG_BUY, the volume component STRONG_BUY or BUY, the composite BUY or
\* STRONG_BUY, a stop_loss strictly below the latest close and a
\* take_profit strictly above it
C15_RisingSeriesBuy ==
    CalledOn(RisingFrames)
        => /\ ret.kind = "signal"
           /\ ret.components[4].signal = "STRONG_BUY"
           /\ ret.components[5].signal \in {"STRONG_BUY", "BUY"}
           /\ ret.signal \in {"STRONG_BUY", "BUY"}
           /\ ret.stop_loss.k = "num" /\ FLt(ret.stop_loss, ret.price)
           /\ ret.take_profit.k = "num" /\ FGt(ret.take_profit, ret.price)

\* the rising series: the trend component is BUY with the score 2 of its two
\* defined checks, RSI and stochastic vote STRONG_SELL, the weighted score
\* is 0, the composite NEUTRAL and there are no risk levels
C15_RisingSeriesNeutral ==
    /\ CalledOn(RisingFrames) /\ ret.kind = "signal"
    /\ ret.price = Flt(2000)
    /\ ret.components[4].signal = "BUY" /\ ret.components[4].value = Flt(2)
    /\ ret.components[5].signal = "STRONG_BUY"
    /\ ret.components[1].signal = "STRONG_SELL" /\ ret.components[6].signal = "STRONG_SELL"
    /\ ret.weighted_score = 0 /\ ret.signal = "NEUTRAL"
    /\ ret.stop_loss = None /\ ret.take_profit = None

----------------------------------------------------------------------------
(* The MACD, Bollinger, trend and volume rules (SpecRules). *)

Defined(x) == x.k = "num"

\* the row has its MACD above its signal line, both defined
MacdAbove(row) ==
    Defined(row.macd) /\ Defined(row.macd_signal) /\ row.macd.v > row.macd_signal.v

\* the previous row is there with a MACD value
HasPrevMacd == args.prev_row # None /\ ~IsNa(args.prev_row.macd)

\* C17: analyze_macd returns the MACD component with the configured weight;
\* NEUTRAL with the insufficient-data rationale when the MACD or its signal
\* line is undefined; when the MACD is above its signal line (the histogram
\* is then positive) STRONG_BUY if the previous row has a MACD that is not
\* above its signal line, and BUY if the previous row has its MACD above the
\* signal line too or there is no previous row (or none with a MACD value);
\* NEUTRAL when the MACD equals its signal line; below the signal line
\* STRONG_SELL after a previous row above it and SELL otherwise
C17_MacdCrossover ==
    Applied("macd") =>
        LET row == args.row
            both == Defined(row.macd) /\ Defined(row.macd_signal)
        IN  /\ out.name = "MACD" /\ out.weight = get_weights(params).macd
            /\ out.reasoning = "insufficient_data" <=> ~both
            /\ ~both => out.signal = "NEUTRAL"
            /\ MacdAbove(row) =>
                 /\ row.macd_hist.v > 0
                 /\ out.signal = IF HasPrevMacd /\ ~MacdAbove(args.prev_row)
                                 THEN "STRONG_BUY" ELSE "BUY"
            /\ (both /\ row.macd.v = row.macd_signal.v) => out.signal = "NEUTRAL"
            /\ (both /\ row.macd.v < row.macd_signal.v) =>
                 out.signal = IF HasPrevMacd /\ MacdAbove(args.prev_row)
                              THEN "STRONG_SELL" ELSE "SELL"

\* a fresh cross: the previous row below its signal line, the latest above
C17_FreshCross ==
    /\ Applied("macd") /\ args.prev_row # None
    /\ MacdAbove(args.row)
    /\ Defined(args.prev_row.macd) /\ Defined(args.prev_row.macd_signal)
    /\ args.prev_row.macd.v < args.prev_row.macd_signal.v
    /\ out.signal = "STRONG_BUY" /\ out.reasoning = "golden_cross"

\* C18: analyze_bollinger returns the Bollinger component with the configured
\* weight; NEUTRAL with the insufficient-data rationale when bb_pct is
\* undefined, as it is on a band of width 0; else STRONG_BUY for bb_pct < 0,
\* else BUY for bb_pct < 0.2, else STRONG_SELL for bb_pct > 1, else SELL for
\* bb_pct > 0.8, else NEUTRAL; bb_pct of exactly 0 is BUY, of exactly 0.2
\* and 0.8 NEUTRAL, of exactly 1 SELL
C18_BollingerBuckets ==
    Applied("bollinger") =>
        LET bb_pct == args.row.bb_pct
        IN  /\ out.name = "Bollinger" /\ out.weight = get_weights(params).bollinger
            /\ out.reasoning = "insufficient_data" <=> ~Defined(bb_pct)
            /\ ~Defined(bb_pct) => out.signal = "NEUTRAL"
            /\ args.row.bb_upper = args.row.bb_lower => out.reasoning = "insufficient_data"
            /\ Defined(bb_pct) =>
                 out.signal =
                    IF bb_pct.v < 0 THEN "STRONG_BUY"
                    ELSE IF 5 * bb_pct.v < Scale THEN "BUY"
                    ELSE IF bb_pct.v > Scale THEN "STRONG_SELL"
                    ELSE IF 5 * bb_pct.v > 4 * Scale THEN "SELL"
                    ELSE "NEUTRAL"
            /\ bb_pct = Flt(0) => out.signal = "BUY"
            /\ bb_pct \in {Num(Scale \div 5), Num((4 * Scale) \div 5)} => out.signal = "NEUTRAL"
            /\ bb_pct = Flt(1) => out.signal = "SELL"

\* a band of width 0 around the close
C18_ZeroWidthBand ==
    /\ Applied("bollinger")
    /\ Defined(args.row.bb_upper) /\ args.row.bb_upper = args.row.bb_lower
    /\ out.signal = "NEUTRAL" /\ out.reasoning = "insufficient_data"

\* the checks analyze_trend counts on a row: two, and four when sma_200 is defined
TrendChecks(row) ==
    {<<"close > sma_20", FGt(row.close, row.sma_20)>>,
     <<"close > sma_50", FGt(row.close, row.sma_50)>>}
        \cup IF IsNa(row.sma_200) THEN {}
             ELSE {<<"close > sma_200", FGt(row.close, row.sma_200)>>,
                   <<"sma_50 > sma_200", FGt(row.sma_50, row.sma_200)>>}

\* C19: analyze_trend returns the trend component with the configured weight;
\* NEUTRAL with the insufficient-data rationale when sma_20 or sma_50 is
\* undefined; else its value is the number of checks that hold minus the
\* number that do not, over close > sma_20, close > sma_50 and, only when
\* sma_200 is defined, close > sma_200 and sma_50 > sma_200, and the signal
\* is STRONG_BUY for a score >= 3, BUY for >= 1, STRONG_SELL for <= -3,
\* SELL for <= -1 and NEUTRAL for 0
C19_TrendScore ==
    Applied("trend") =>
        LET row == args.row
            short == IsNa(row.sma_20) \/ IsNa(row.sma_50)
            score == Cardinality({c \in TrendChecks(row) : c[2]})
                        - Cardinality({c \in TrendChecks(row) : ~c[2]})
        IN  /\ out.name = "Trend" /\ out.weight = get_weights(params).trend
            /\ out.reasoning = "insufficient_data" <=> short
            /\ short => out.signal = "NEUTRAL"
            /\ ~short =>
                 /\ out.value = Flt(score)
                 /\ out.signal =
                      IF score >= 3 THEN "STRONG_BUY"
                      ELSE IF score >= 1 THEN "BUY"
                      ELSE IF score <= -3 THEN "STRONG_SELL"
                      ELSE IF score <= -1 THEN "SELL"
                      ELSE "NEUTRAL"
                 /\ out.signal = "NEUTRAL" <=> score = 0

\* sma_200 undefined and the close above sma_20 and sma_50: score 2, BUY
C19_TwoChecksBuy ==
    /\ Applied("trend")
    /\ Defined(args.row.sma_50) /\ IsNa(args.row.sma_200)
    /\ FGt(args.row.close, args.row.sma_20) /\ FGt(args.row.close, args.row.sma_50)
    /\ out.value = Flt(2) /\ out.signal = "BUY"

\* C20: analyze_volume returns the volume component with the configured
\* weight; NEUTRAL with the insufficient-data rationale when the volume
\* ratio is undefined; for a ratio > 2.0 STRONG_BUY when the last change of
\* the close is positive and STRONG_SELL when it is negative (or zero); else
\* for a ratio > 1.5 BUY and SELL likewise; NEUTRAL for a ratio <= 1.5
\* whatever the change
C20_VolumeConfirmation ==
    Applied("volume") =>
        LET ratio == args.row.volume_ratio
            change == args.row.change_1d
            up == Defined(change) /\ change.v > 0
            down == Defined(change) /\ change.v < 0
        IN  /\ out.name = "Volume" /\ out.weight = get_weights(params).volume
            /\ out.reasoning = "insufficient_data" <=> ~Defined(ratio)
            /\ ~Defined(ratio) => out.signal = "NEUTRAL"
            /\ (Defined(ratio) /\ ratio.v > 2 * Scale) =>
                 /\ up => out.signal = "STRONG_BUY"
                 /\ down => out.signal = "STRONG_SELL"
                 /\ ~up => out.signal = "STRONG_SELL"
            /\ (Defined(ratio) /\ 2 * ratio.v > 3 * Scale /\ ratio.v <= 2 * Scale) =>
                 /\ up => out.signal = "BUY"
                 /\ down => out.signal = "SELL"
                 /\ ~up => out.signal = "SELL"
            /\ (Defined(ratio) /\ 2 * ratio.v <= 3 * Scale) => out.signal = "NEUTRAL"

\* three times the average volume on a falling close
C20_SurgeOnFallingClose ==
    /\ Applied("volume") /\ args.row.volume_ratio = Flt(3) /\ args.row.change_1d = Flt(-5)
    /\ out.signal = "STRONG_SELL" /\ out.reasoning = "surge_down"

----------------------------------------------------------------------------
(* The stochastic and ADX rules and the symmetry of the MACD rule (SpecRules). *)

\* C21: analyze_stochastic returns the stochastic component with the
\* configured weight; NEUTRAL with the insufficient-data rationale when %K
\* or %D is undefined; else STRONG_BUY when %K and %D are both below the
\* oversold level (20), else BUY for %K < 30, else STRONG_SELL when %K and %D
\* are both above the overbought level (80), else SELL for %K > 70, else
\* NEUTRAL; and with %D held fixed a higher %K never gets a more bullish signal
C21_StochasticBuckets ==
    Applied("stochastic") =>
        LET k == args.row.stoch_k
            d == args.row.stoch_d
            both == Defined(k) /\ Defined(d)
            oversold == params.stochastic.oversold * Scale
            overbought == params.stochastic.overbought * Scale
        IN  /\ out.name = "Stochastic" /\ out.weight = get_weights(params).stochastic
            /\ oversold = 20 * Scale /\ overbought = 80 * Scale
            /\ out.reasoning = "insufficient_data" <=> ~both
            /\ ~both => out.signal = "NEUTRAL"
            /\ both =>
                 /\ out.signal =
                      IF k.v < oversold /\ d.v < oversold THEN "STRONG_BUY"
                      ELSE IF k.v < 30 * Scale THEN "BUY"
                      ELSE IF k.v > overbought /\ d.v > overbought THEN "STRONG_SELL"
                      ELSE IF k.v > 70 * Scale THEN "SELL"
                      ELSE "NEUTRAL"
                 /\ \A a \in StochasticArgs :
                      (a.row.stoch_d = d /\ Defined(a.row.stoch_k) /\ a.row.stoch_k.v > k.v)
                          => signal_to_score(analyze_stochastic(a.row, params).signal)
                                <= signal_to_score(out.signal)

\* %K below 20 with %D at 50: BUY, not STRONG_BUY
C21_OnlyKOversold ==
    /\ Applied("stochastic") /\ args.row.stoch_k = Flt(0) /\ args.row.stoch_d = Flt(50)
    /\ out.signal = "BUY" /\ out.reasoning = "near_oversold"

\* C22: analyze_adx returns the ADX component with the configured weight;
\* NEUTRAL with the insufficient-data rationale when the ADX is undefined, as
\* it is when +DI + -DI is 0; NEUTRAL for adx < 20; for 20 <= adx <
\* trend_threshold BUY when +DI > -DI and SELL when -DI > +DI (or equal);
\* for adx >= trend_threshold the same, STRONG_BUY and STRONG_SELL exactly
\* when adx > 40
C22_AdxBuckets ==
    Applied("adx") =>
        LET adx == args.row.adx
            up == args.row.plus_di.v > args.row.minus_di.v
            down == args.row.minus_di.v > args.row.plus_di.v
            strong == adx.v >= params.adx.trend_threshold * Scale /\ adx.v > 40 * Scale
        IN  /\ out.name = "ADX" /\ out.weight = get_weights(params).adx
            /\ out.reasoning = "insufficient_data" <=> ~Defined(adx)
            /\ ~Defined(adx) => out.signal = "NEUTRAL"
            /\ args.row.plus_di.v + args.row.minus_di.v = 0
                 => out.reasoning = "insufficient_data"
            /\ (Defined(adx) /\ adx.v < 20 * Scale) => out.signal = "NEUTRAL"
            /\ (Defined(adx) /\ adx.v >= 20 * Scale) =>
                 /\ up => out.signal = IF strong THEN "STRONG_BUY" ELSE "BUY"
                 /\ down => out.signal = IF strong THEN "STRONG_SELL" ELSE "SELL"
                 /\ ~up => out.signal = IF strong THEN "STRONG_SELL" ELSE "SELL"

\* an ADX of exactly 40 with +DI above -DI under the default threshold: BUY
C22_ExactlyForty ==
    /\ Applied("adx") /\ params = default_config
    /\ args.row.adx = Flt(40) /\ args.row.plus_di = Flt(30) /\ args.row.minus_di = Flt(10)
    /\ out.signal = "BUY" /\ out.reasoning = "strong_uptrend"

\* a row with macd, macd_signal and macd_hist negated; None stays None
Negated(row) ==
    IF row = None THEN None
    ELSE [macd |-> FNeg(row.macd), macd_signal |-> FNeg(row.macd_signal),
          macd_hist |-> FNeg(row.macd_hist)]

\* C23: the signal analyze_macd returns for the negated latest and previous
\* rows is the mirror image of the signal for the rows themselves
C23_MacdMirror ==
    Applied("macd") =>
        signal_to_score(analyze_macd(Negated(args.row), Negated(args.prev_row), params).signal)
            = -signal_to_score(out.signal)

\* the previous row with its MACD on the signal line: the latest row above
\* the line is STRONG_BUY, its mirror image below the line only SELL
C23_CrossFromEqualLines ==
    /\ Applied("macd") /\ args.prev_row # None
    /\ Defined(args.prev_row.macd) /\ args.prev_row.macd = args.prev_row.macd_signal
    /\ MacdAbove(args.row)
    /\ out.signal = "STRONG_BUY"
    /\ analyze_macd(Negated(args.row), Negated(args.prev_row), params).signal = "SELL"

----------------------------------------------------------------------------
(* The risk/reward ratio of calculate_risk_levels (SpecPure). *)

\* C24: for every price, defined ATR and configuration calculate_risk_levels
\* returns risk_reward = risk_reward_target whenever the signal is not
\* NEUTRAL, and risk_reward is None exactly when stop_loss and take_profit
\* are None, which is exactly when the signal is NEUTRAL, a stop_loss of 0
\* included
C24_RiskRewardWithLevels ==
    (args.op = "risk" /\ out # NoRet /\ IsNum(args.atr))
        => /\ args.signal # "NEUTRAL"
                => out.risk_reward = Num(params.signals.risk.risk_reward_target)
           /\ out.risk_reward = None <=> (out.stop_loss = None /\ out.take_profit = None)
           /\ out.risk_reward = None <=> args.signal = "NEUTRAL"

\* a BUY at price 4 with ATR 2 and multiplier 2.0: the stop_loss is 0, the
\* take_profit 12, and risk_reward is None
C24_ZeroStopLoss ==
    /\ args.op = "risk" /\ out # NoRet /\ params = default_config
    /\ args.signal = "BUY" /\ args.price = Flt(4) /\ args.atr = Flt(2)
    /\ out.stop_loss = Flt(0) /\ out.take_profit = Flt(12)
    /\ out.risk_reward = None

----------------------------------------------------------------------------
(* The indicator rows of a frame and of the frame without its newest bar    *)
(* (Spec).                                                                  *)

\* the frame without the bar of the greatest timestamp
WithoutNewest(df) == SelectSeq(df, LAMBDA bar : bar.ts # MaxTs(df))

\* the indicator columns with a window and the bars each needs for a value
WindowedColumns ==
    {<<"sma_20", 20>>, <<"sma_50", 50>>, <<"sma_200", 200>>, <<"rsi", 14>>,
     <<"bb_upper", 20>>, <<"bb_lower", 20>>, <<"bb_pct", 20>>, <<"atr", 14>>,
     <<"atr_pct", 14>>, <<"stoch_k", 14>>, <<"stoch_d", 14 + 3 - 1>>,
     <<"volume_sma", 20>>, <<"volume_ratio", 20>>, <<"plus_di", 14>>, <<"minus_di", 14>>,
     <<"adx", 14 + 14 - 1>>, <<"change_1d", 2>>}

\* C25: the indicator row calculate_all_indicators computes for a bar of a
\* series S is the row it computes for that bar from S extended with a bar
\* newer than all of S, and a windowed indicator of a bar with fewer bars up
\* to it than the window needs is undefined (default configuration, frames
\* of at most 60 bars)
C25_NoLookAhead ==
    (Called /\ Len(first.df) \in 1..60 /\ first.params = default_config) =>
        LET n == Len(first.df)
            extended == calculate_all_indicators(first.df, first.params)
            series == calculate_all_indicators(WithoutNewest(first.df), first.params)
        IN  /\ \A r \in 1..(n - 1) : series[r] = extended[r + 1]
            /\ \A r \in 1..n : \A col \in WindowedColumns :
                  n + 1 - r < col[2] => IsNa(extended[r][col[1]])

\* twenty bars: the newest row has its sma_20, the row before it has none,
\* with or without the newest bar
C25_TwentiethBar ==
    /\ Called /\ Len(first.df) = 20
    /\ ~IsNa(calculate_all_indicators(first.df, first.params)[1].sma_20)
    /\ IsNa(calculate_all_indicators(first.df, first.params)[2].sma_20)
    /\ IsNa(calculate_all_indicators(WithoutNewest(first.df), first.params)[1].sma_20)

----------------------------------------------------------------------------
(* The RSI of a window without a loss, and series shorter than every        *)
(* window (Spec).                                                           *)

\* the closes of the frame, oldest first
ClosesOf(df) == [j \in 1..Len(df) |-> sort_index_asc(df)[j].close]

\* no close of the last 14 bars is below the close before it
NoLossInWindow(df) ==
    /\ Len(df) >= 14
    /\ \A j \in (Len(df) - 13)..Len(df) : j > 1 => ClosesOf(df)[j] >= ClosesOf(df)[j - 1]

\* C26: for a latest bar with a full window of 14 bars and an average loss
\* of zero calculate_rsi returns 100, so the RSI component of generate_signal
\* carries the value 100 and not the insufficient-data rationale
C26_ZeroLossRsiHundred ==
    (Called /\ ret.kind = "signal" /\ NoLossInWindow(first.df))
        => /\ ret.components[1].value = Flt(100)
           /\ ret.components[1].reasoning # "insufficient_data"

\* fourteen equal closes: average gain and average loss are both zero, the
\* RSI is 0/0 and the component reports insufficient data
C26_FlatWindowUndefined ==
    /\ Called /\ ret.kind = "signal" /\ Len(first.df) = 14
    /\ \A j \in 1..14 : first.df[j].close = 10
    /\ ret.components[1].signal = "NEUTRAL"
    /\ ret.components[1].reasoning = "insufficient_data"

\* C27: under the default configuration every series of 1 to 13 bars gets
\* the composite NEUTRAL without stop_loss, take_profit and risk_reward: all
\* components but MACD are NEUTRAL with the insufficient-data rationale, so
\* the weighted score stays below 0.5 in magnitude
C27_BriefSeriesNeutral ==
    (Called /\ first.params = default_config /\ Len(first.df) \in 1..13)
        => /\ ret.kind = "signal"
           /\ \A i \in 1..7 :
                i # 2 => /\ ret.components[i].signal = "NEUTRAL"
                         /\ ret.components[i].reasoning = "insufficient_data"
           /\ 2 * Abs(ret.weighted_score) < Scale
           /\ ret.signal = "NEUTRAL"
           /\ ret.stop_loss = None /\ ret.take_profit = None /\ ret.risk_reward = None

\* thirteen bars with a MACD component that is STRONG_BUY or STRONG_SELL
C27_StrongMacdAlone ==
    /\ Called /\ first.params = default_config /\ Len(first.df) = 13
    /\ ret.kind = "signal"
    /\ ret.components[2].signal \in {"STRONG_BUY", "STRONG_SELL"}
    /\ ret.signal = "NEUTRAL" /\ ret.risk_reward = None

PositiveWeights(p) == \A i \in 1..7 : ConfiguredWeight(p, i) > 0

UnanimousSigs == \A i \in 1..7 : args.sigs[i] = args.sigs[1]

\* C28: when the seven components carry the same signal s and every weight is
\* positive, the composite signal is s and the confidence is
\* 50 + 25 * |score(s)|; a confidence of 100 occurs only when the seven
\* components agree on STRONG_BUY or on STRONG_SELL
C28_UnanimousConfidence ==
    (args.op = "fuse" /\ out # NoRet /\ PositiveWeights(params))
        => /\ out.kind = "signal"
           /\ UnanimousSigs
                => /\ out.signal = args.sigs[1]
                   /\ out.confidence
                        = Num(50 * Scale + 25 * Abs(signal_to_score(args.sigs[1])) * Scale)
           /\ out.confidence = Flt(100)
                => /\ UnanimousSigs
                   /\ args.sigs[1] \in {"STRONG_BUY", "STRONG_SELL"}

\* seven SELL components under the MACD-heavy weights: composite SELL with
\* confidence 75
C28_UnanimousSell ==
    /\ Fused /\ PositiveWeights(params) /\ params # default_config
    /\ \A i \in 1..7 : args.sigs[i] = "SELL"
    /\ out.signal = "SELL" /\ out.confidence = Flt(75)

\* the indicator row of the newest bar of the frame handed to the analysis
NewestRow == IndicatorRow(sort_index_asc(first.df), first.params, Len(first.df))

\* C29: whenever sma_20 and sma_50 are defined the trend score is even, in
\* {-2, 0, 2} when sma_200 is undefined and in {-4, -2, 0, 2, 4} when it is
\* defined, a close equal to a moving average counting as bearish; sma_200
\* is defined only for frames of at least 200 bars, so the trend component
\* is STRONG_BUY or STRONG_SELL only for such frames
C29_TrendScoreEven ==
    (Called /\ ret.kind = "signal") =>
        LET row == NewestRow
            trend == ret.components[4]
        IN  /\ trend.name = "Trend"
            /\ (Defined(row.sma_20) /\ Defined(row.sma_50)) =>
                  /\ trend.value \in
                        IF IsNa(row.sma_200) THEN {Flt(-2), Flt(0), Flt(2)}
                        ELSE {Flt(-4), Flt(-2), Flt(0), Flt(2), Flt(4)}
                  /\ (row.close = row.sma_20 /\ row.close = row.sma_50 /\ IsNa(row.sma_200))
                        => trend.value = Flt(-2)
                  /\ (row.close = row.sma_20 /\ row.close = row.sma_50
                        /\ row.close = row.sma_200) => trend.value = Flt(-4)
            /\ ~IsNa(row.sma_200) => Len(first.df) >= 200
            /\ trend.signal \in {"STRONG_BUY", "STRONG_SELL"}
                  => (~IsNa(row.sma_200) /\ Len(first.df) >= 200)

\* a flat frame of 200 bars: the close equals the three moving averages, the
\* trend score is -4 and the trend component STRONG_SELL
C29_FlatTwoHundredBars ==
    /\ Called /\ ret.kind = "signal" /\ Len(first.df) = 200
    /\ NewestRow.close = NewestRow.sma_200
    /\ ret.components[4].value = Flt(-4)
    /\ ret.components[4].signal = "STRONG_SELL"

-----------------------------------------------------------------------------
(* TechnicalAnalyzer.get_stock_kline_data: cache, Lixinger, AKShare and the   *)
(* simulated fallback (SpecKline).  A frame is abstracted to its origin, the  *)
(* date of its newest bar (a day number) and whether its index carries a      *)
(* time zone; now is the current day.                                         *)

\* the greatest day the clock reaches
MaxDay == 5

\* a fetcher that returned None (no token, request failed, nothing usable)
NoKline == [kind |-> "none"]

Kline(origin, latest, tz) == [kind |-> "kline", origin |-> origin, latest |-> latest, tz |-> tz]

\* a cache file json.load or the DataFrame conversion fails on
CorruptFile == [kind |-> "corrupt"]

CachedFile(kline) == [kind |-> "cache", data |-> kline]

\* None when the file cannot be read, else the frame it holds
load_kline_from_cache(file) == IF file.kind = "cache" THEN file.data ELSE NoKline

\* what _fetch_kline_from_lixinger can hand back on a day: None, or bars whose
\* newest is 0, 1, 2 or 5 days old; the API dates carry +08:00 or no zone
LixingerResponses(day) ==
    {NoKline} \cup {Kline("lixinger", day - age, tz) : age \in {0, 1, 2, 5}, tz \in BOOLEAN}

\* what _fetch_kline_from_akshare can hand back for daily bars: None, or bars
\* with plain dates
AkshareResponses(day) ==
    {NoKline} \cup {Kline("akshare", day - age, FALSE) : age \in {0, 1, 2, 5}}

\* dates.max() of pd.date_range(end=datetime.now()), zone removed
get_simulated_kline_data(day) == Kline("simulated", day, FALSE)

\* one pass of the loop over data_sources: the age of the newest bar is
\* current_date - latest_date.normalize() with a zone-less current_date, a
\* TypeError for a zoned index, which the except clause turns into "continue"
try_source(best, fetched, day) ==
    IF fetched = NoKline THEN [best |-> best, stop |-> FALSE]
    ELSE IF fetched.tz THEN [best |-> best, stop |-> FALSE]
    ELSE LET days_diff == day - fetched.latest
         IN  IF best = NoKline \/ days_diff < day - best.latest
             THEN [best |-> fetched, stop |-> days_diff <= 1]
             ELSE [best |-> best, stop |-> FALSE]

\* the file after _save_kline_to_cache: unchanged when the cache environment
\* check fails, else replaced; isoformat keeps the zone of the dates
save_kline_to_cache(file, data, env_ok) == IF env_ok THEN CachedFile(data) ELSE file

\* the whole call: what it returns, the sources it called, in order, and the
\* cache file it leaves
get_stock_kline_data(file, day, lixinger, akshare, env_ok) ==
    LET cached_data == load_kline_from_cache(file)
        after_lixinger == try_source(NoKline, lixinger, day)
        after_akshare == try_source(after_lixinger.best, akshare, day)
        best_data == IF after_lixinger.stop THEN after_lixinger.best ELSE after_akshare.best
        consulted == IF after_lixinger.stop THEN <<"lixinger">> ELSE <<"lixinger", "akshare">>
    IN  IF cached_data # NoKline /\ day - cached_data.latest <= 3
        THEN [kind |-> "kline_ret", data |-> cached_data, consulted |-> <<>>, file |-> file]
        ELSE IF best_data # NoKline
        THEN [kind |-> "kline_ret", data |-> best_data, consulted |-> consulted,
              file |-> save_kline_to_cache(file, best_data, env_ok)]
        ELSE [kind |-> "kline_ret", data |-> get_simulated_kline_data(day),
              consulted |-> consulted, file |-> file]

\* cache files left by earlier runs: none, an unreadable one, bars of either
\* source up to MaxDay days old
InitialFiles ==
    {NoFile, CorruptFile}
        \cup {CachedFile(Kline(origin, -age, tz)) :
                origin \in {"lixinger", "akshare"}, age \in {0, 3, 4}, tz \in BOOLEAN}

InitKline ==
    /\ params = default_config
    /\ kline_data = <<>>
    /\ pc = "kline"
    /\ ret = NoRet
    /\ first = NoCall
    /\ now = 0
    /\ args = NoArgs
    /\ out = NoRet
    /\ cache_file \in InitialFiles

\* kline_data = self.get_stock_kline_data(stock_code)
GetStockKlineData ==
    /\ pc = "kline"
    /\ \E lixinger \in LixingerResponses(now), akshare \in AkshareResponses(now),
          env_ok \in BOOLEAN :
          /\ args' = [op |-> "kline", file |-> cache_file, day |-> now,
                      lixinger |-> lixinger, akshare |-> akshare, env_ok |-> env_ok]
          /\ out' = get_stock_kline_data(cache_file, now, lixinger, akshare, env_ok)
    /\ cache_file' = out'.file
    /\ UNCHANGED <<params, kline_data, pc, ret, first, now>>

\* midnight passes
NextDay ==
    /\ pc = "kline"
    /\ now < MaxDay
    /\ now' = now + 1
    /\ UNCHANGED <<params, kline_data, pc, ret, first, args, out, cache_file>>

NextKline == GetStockKlineData \/ NextDay

SpecKline == InitKline /\ [][NextKline]_vars

KlineCalled == args.op = "kline" /\ out # NoRet

\* the call found a loadable cache whose newest bar is at most 3 days old
FreshCache ==
    /\ load_kline_from_cache(args.file) # NoKline
    /\ args.day - load_kline_from_cache(args.file).latest <= 3

\* the non-empty frames the two real sources had for the call
Offered == {args.lixinger, args.akshare} \ {NoKline}

\* C30: without a loadable cache at most 3 days old the call consults
\* Lixinger, then AKShare unless Lixinger returned bars at most 1 day old,
\* returns the freshest frame obtained (Lixinger's on a tie) and, the cache
\* directory being writable, leaves it in the cache file; it returns
\* simulated bars only when both sources returned nothing, and leaves the
\* cache file alone then; with such a cache it returns the cached frame and
\* calls no source
C30_KlineSourcePolicy ==
    KlineCalled =>
        LET lixinger_fresh ==
                args.lixinger # NoKline /\ args.day - args.lixinger.latest <= 1
            obtained ==
                IF lixinger_fresh THEN {args.lixinger} ELSE Offered
            freshest ==
                CHOOSE k \in obtained :
                    /\ \A other \in obtained : k.latest >= other.latest
                    /\ (args.lixinger \in obtained /\ args.lixinger.latest >= k.latest)
                          => k = args.lixinger
        IN  IF FreshCache
            THEN /\ out.data = load_kline_from_cache(args.file)
                 /\ out.consulted = <<>>
                 /\ cache_file = args.file
            ELSE /\ out.consulted = IF lixinger_fresh THEN <<"lixinger">>
                                    ELSE <<"lixinger", "akshare">>
                 /\ obtained # {} =>
                      /\ out.data = freshest
                      /\ args.env_ok => cache_file = CachedFile(freshest)
                 /\ out.data.origin = "simulated" <=> obtained = {}
                 /\ out.data.origin = "simulated" => cache_file = args.file

\* no cache; Lixinger returned bars of today dated with a time zone and
\* AKShare nothing: AKShare was consulted and simulated bars were returned
C30_ZonedLixingerDiscarded ==
    /\ KlineCalled /\ args.file = NoFile
    /\ args.lixinger # NoKline /\ args.lixinger.tz /\ args.lixinger.latest = args.day
    /\ args.akshare = NoKline
    /\ out.consulted = <<"lixinger", "akshare">>
    /\ out.data.origin = "simulated"
    /\ cache_file = NoFile

====
